---------------------------- MODULE Spec2Model ----------------------------
(***************************************************************************)
(* A model of zyzek/goombas: function trees (functree.py), genomes and     *)
(* their mutation and crossover (genome.py), the agent runtime             *)
(* (goomba.py) and the population manager (world.py).                      *)
(*                                                                         *)
(* Numbers.  The evaluator's values are modelled as integers.  A Python    *)
(* float that holds an integer is the pair (val, fl = TRUE); its text is   *)
(* the digits followed by ".0", as str() prints it.  Floating point        *)
(* rounding is modelled separately, for the fuzzy operators, by a binary   *)
(* floating point format of FloatPrec significant bits.                    *)
(***************************************************************************)
EXTENDS Integers, Sequences, FiniteSets, TLC

VARIABLES
    \* ---- agent runtime (goomba.py) ----
    genome,          \* Goomba.genome.genes: the expressed, linked genes
    gene_queue,      \* Goomba.gene_queue: deque of genes (by gene id), maxlen GENE_QUEUE_SIZE
    exec_depth,      \* Goomba.exec_depth
    memory,          \* Goomba.memory: deque of values, maxlen MEM_SIZE
    state,           \* Goomba.state
    intent_weights,  \* Goomba.intent_weights: effect action -> weight
    expr_order,      \* Goomba.expr_order
    sensors,         \* Goomba.sensors: Tile, Bump, Rand, Left, Front, Right
    pos,             \* Goomba.pos
    ori,             \* Goomba.ori
    thoughts,        \* Goomba.counts[Count.Thoughts]
    qi,              \* the local i of Goomba.think's while loop
    kont,            \* the Python call stack below think: pending work, top first
    vals,            \* values returned by finished sub-evaluations, last on top
    pc,              \* where the agent is: "idle" | "sensed" | "think"
    ticks,           \* number of think() calls made so far
    last,            \* the name of the last step taken
    \* ---- genome mutation (genome.py) ----
    mi,              \* the local i of Genome.mutate's while loop; in World.step, the
                     \* place in self.goombas of the agent being processed
    mpc,             \* where the genome is: "new" | "idle" | "mutate" | "raised"; where
                     \* World.step is: "idle" | "sense" | "think" | "end" | "return" | "copy"
    muts,            \* number of mutations applied so far
    \* ---- population (world.py) ----
    world,           \* the World: its goombas, generation counter and what it raised
    \* ---- calls of pure functions ----
    args,            \* the arguments of the call; in World.step, the tape of draws
    ret              \* what the call returned or raised; in World.step, the world
                     \* before the step and the world after it

agentVars == <<genome, gene_queue, exec_depth, memory, state, intent_weights,
               expr_order, sensors, pos, ori, thoughts, qi, kont, vals, pc, ticks, last>>

benchVars == <<mi, mpc, muts, world, args, ret>>

vars == <<agentVars, benchVars>>

-----------------------------------------------------------------------------
(* Enumerations *)

\* functree.Op
OpAdd == 0
OpSub == 1
OpMul == 2
OpDiv == 3
OpMod == 4
OpPow == 5
OpEqu == 6
OpLes == 7
OpGre == 8
NumOps == 9

\* functree.RefType
Pure_Offset_Call == 0
Impure_Offset_Call == 1
Poll_Sensor == 2
Constant == 3

\* functree.OP_STRINGS, as a sequence indexed by Op + 1
OP_STRINGS == <<"+", "-", "*", "/", "%", "^", "=", "<", ">">>

\* functree.STRING_OPS: the operator a one-character token names
STRING_OPS(c) == CHOOSE o \in 0..(NumOps - 1) : OP_STRINGS[o + 1] = c

\* functree.REF_DELIMS as a function of the RefType (the Constant delimiter is empty)
REF_DELIMS(t) ==
    IF t = Pure_Offset_Call THEN <<"[">>
    ELSE IF t = Impure_Offset_Call THEN <<"{">>
    ELSE IF t = Poll_Sensor THEN <<"$">>
    ELSE <<>>

-----------------------------------------------------------------------------
(* Text: a token is a sequence of characters, a text a sequence of tokens   *)
(* (what str.split() returns and " ".join() takes).                         *)

Digits == <<"0", "1", "2", "3", "4", "5", "6", "7", "8", "9">>

IsDigit(c) == \E i \in 1..10 : Digits[i] = c

DigitVal(c) == (CHOOSE i \in 1..10 : Digits[i] = c) - 1

AllDigits(cs) == Len(cs) > 0 /\ \A i \in 1..Len(cs) : IsDigit(cs[i])

RECURSIVE NatVal(_)
NatVal(cs) ==
    IF Len(cs) = 0 THEN 0
    ELSE 10 * NatVal(SubSeq(cs, 1, Len(cs) - 1)) + DigitVal(cs[Len(cs)])

RECURSIVE NatStr(_)
NatStr(n) ==
    IF n < 10 THEN <<Digits[n + 1]>>
    ELSE NatStr(n \div 10) \o <<Digits[(n % 10) + 1]>>

\* Mutant: the sign of the value is not printed
IntStrUnsigned(n) == NatStr(IF n < 0 THEN -n ELSE n)

\* str(n) of a Python int
IntStr(n) == IF n < 0 THEN <<"-">> \o NatStr(-n) ELSE NatStr(n)

\* str(x) of a Python float holding the integer n (repr prints "n.0")
FloatStr(n) == IntStr(n) \o <<".", "0">>

Unsigned(cs) == IF Len(cs) > 0 /\ cs[1] \in {"-", "+"} THEN Tail(cs) ELSE cs

Sign(cs) == IF Len(cs) > 0 /\ cs[1] = "-" THEN -1 ELSE 1

\* int(s) succeeds: an optional sign and at least one digit
IntSyntax(cs) == AllDigits(Unsigned(cs))

PyInt(cs) == Sign(cs) * NatVal(Unsigned(cs))

DotAt(cs) == IF \E i \in 1..Len(cs) : cs[i] = "."
             THEN CHOOSE i \in 1..Len(cs) : cs[i] = "." /\ \A j \in 1..(i - 1) : cs[j] # "."
             ELSE 0

\* float(s) succeeds, for the decimal forms the model covers: digits, or
\* digits "." digits, with an optional sign
FloatSyntax(cs) ==
    LET u == Unsigned(cs)
        d == DotAt(u)
    IN  IF d = 0 THEN AllDigits(u)
        ELSE /\ AllDigits(SubSeq(u, 1, d - 1))
             /\ \A i \in (d + 1)..Len(u) : IsDigit(u[i])

\* A value outside the integers: arithmetic on it stops the check
Inexact == "inexact"

\* The decimal cs has no fraction: float(cs) holds an integer
Integral(cs) ==
    LET u == Unsigned(cs)
        d == DotAt(u)
    IN  d = 0 \/ \A i \in (d + 1)..Len(u) : u[i] = "0"

\* float(s): the integer the float holds, where it holds one
PyFloat(cs) ==
    LET u == Unsigned(cs)
        d == DotAt(u)
    IN  IF ~Integral(cs) THEN Inexact
        ELSE Sign(cs) * NatVal(IF d = 0 THEN u ELSE SubSeq(u, 1, d - 1))

\* The largest finite float, scaled down; a result beyond it is an infinity
FloatMax == 15

Inf == FloatMax + 1

\* x * y of two floats holding integers: overflow gives an infinity
FloatMul(x, y) ==
    IF x * y > FloatMax THEN Inf ELSE IF x * y < -FloatMax THEN -Inf ELSE x * y

\* round(x) raises OverflowError for an infinity
RoundRaises(x) == x >= Inf \/ x <= -Inf

-----------------------------------------------------------------------------
(* Function trees (functree.py).  A node is a record; `id` is the object's  *)
(* identity and `parent` the id of the object its parent field names        *)
(* (0 for None).  `ev` is the operator whose lambda _evaluate_ is bound to. *)

\* The ref of a leaf that is bound to nothing (None)
NoneRef == [k |-> "none", id |-> 0]

FTreeNode(id, op, l, r, parent) ==
    [kind |-> "node", id |-> id, parent |-> parent, operator |-> op, ev |-> op,
     left |-> l, right |-> r]

FTreeLeaf(id, ref, ref_type, val, fl, parent) ==
    [kind |-> "leaf", id |-> id, parent |-> parent, ref_type |-> ref_type,
     val |-> val, fl |-> fl, ref |-> ref]

is_leaf(n) == n.kind = "leaf"

\* FTreeLeaf.__str__
LeafStr(n) == REF_DELIMS(n.ref_type) \o (IF n.fl THEN FloatStr(n.val) ELSE IntStr(n.val))

\* FTreeNode.__str__ / FTreeLeaf.__str__, as the tokens of the string
RECURSIVE TreeStr(_)
TreeStr(n) ==
    IF is_leaf(n) THEN <<LeafStr(n)>>
    ELSE <<<<OP_STRINGS[n.operator + 1]>>>> \o TreeStr(n.left) \o TreeStr(n.right)

\* as_list: in-order
RECURSIVE as_list(_)
as_list(n) ==
    IF is_leaf(n) THEN <<n>> ELSE as_list(n.left) \o <<n>> \o as_list(n.right)

RECURSIVE size(_)
size(n) == IF is_leaf(n) THEN 1 ELSE 1 + size(n.left) + size(n.right)

IsOpToken(tok) == Len(tok) = 1 /\ \E o \in 1..NumOps : OP_STRINGS[o] = tok[1]

\* parse_func(sequence, parent): the result is [ok, node, rest, next]; ok is
\* FALSE where the Python raises (pop from an empty list, int() or float() of
\* a malformed token).  `next` is the first unused object id.
RECURSIVE parse_func(_, _, _)
parse_func(sequence, parent, id) ==
    IF Len(sequence) = 0
    THEN [ok |-> FALSE, node |-> <<>>, rest |-> <<>>, next |-> id]
    ELSE
    LET curr_sym == Head(sequence)
        rest0 == Tail(sequence)
        bad == [ok |-> FALSE, node |-> <<>>, rest |-> rest0, next |-> id]
        leaf(t) ==
            IF IntSyntax(Tail(curr_sym))
            THEN [ok |-> TRUE,
                  node |-> FTreeLeaf(id, NoneRef, t, PyInt(Tail(curr_sym)), FALSE, parent),
                  rest |-> rest0, next |-> id + 1]
            ELSE bad
    IN  IF IsOpToken(curr_sym)
        THEN LET l == parse_func(rest0, id, id + 1)
             IN  IF ~l.ok THEN l
                 ELSE LET r == parse_func(l.rest, id, l.next)
                      IN  IF ~r.ok THEN r
                          ELSE [ok |-> TRUE,
                                node |-> FTreeNode(id, STRING_OPS(curr_sym[1]),
                                                   l.node, r.node, parent),
                                rest |-> r.rest, next |-> r.next]
        ELSE IF curr_sym[1] = "[" THEN leaf(Pure_Offset_Call)
        ELSE IF curr_sym[1] = "{" THEN leaf(Impure_Offset_Call)
        ELSE IF curr_sym[1] = "$" THEN leaf(Poll_Sensor)
        ELSE IF FloatSyntax(curr_sym)
             THEN [ok |-> TRUE,
                   node |-> FTreeLeaf(id, NoneRef, Constant, PyFloat(curr_sym), TRUE, parent),
                   rest |-> rest0, next |-> id + 1]
             ELSE bad

-----------------------------------------------------------------------------
(* Genomes (genome.py).  A gene is [gid, action, function]: gid is the Gene *)
(* object's identity.  A leaf's ref is NoneRef, the function object a pure  *)
(* offset call is bound to, or the gene object an impure one is bound to.   *)

\* goomba.Action
Nop == 0
Forward == 1
Backward == 2
LeftTurn == 3
RightTurn == 4
Suck == 5
Wait == 6
Call == 7
Promote == 8
Demote == 9
Remember == 10
Forget == 11
SetState == 12
NumActions == 13

\* goomba.EFFECTS, in the order of the list
EFFECTS == <<Forward, Backward, LeftTurn, RightTurn, Suck, Wait>>

\* goomba.Sensor
Bump == 0
Rand == 1
Tile == 2
Left == 3
Right == 4
Front == 5
PosX == 6
PosY == 7
OriX == 8
OriY == 9
State == 10
Mem == 11
NumSensors == 12

FuncRef(root) == [k |-> "func", id |-> root.id]
GeneRef(gene) == [k |-> "gene", id |-> gene.gid]

Gene(gid, action, function) == [gid |-> gid, action |-> action, function |-> function]

\* sequence.split("|") followed by .strip().split() of each part: the token
\* lists between the "|" tokens ("" splits into one empty part)
RECURSIVE SplitBar(_)
SplitBar(tokens) ==
    IF \A i \in 1..Len(tokens) : tokens[i] # <<"|">>
    THEN <<tokens>>
    ELSE LET b == CHOOSE i \in 1..Len(tokens) :
                      tokens[i] = <<"|">> /\ \A j \in 1..(i - 1) : tokens[j] # <<"|">>
         IN  <<SubSeq(tokens, 1, b - 1)>> \o SplitBar(SubSeq(tokens, b + 1, Len(tokens)))

\* " | ".join(parts)
RECURSIVE JoinBar(_)
JoinBar(parts) ==
    IF Len(parts) = 0 THEN <<>>
    ELSE IF Len(parts) = 1 THEN parts[1]
    ELSE parts[1] \o <<<<"|">>>> \o JoinBar(Tail(parts))

\* Gene.__str__
GeneStr(gene) == <<IntStr(gene.action)>> \o TreeStr(gene.function)

Min(a, b) == IF a < b THEN a ELSE b
Max(a, b) == IF a > b THEN a ELSE b
Abs(a) == IF a < 0 THEN -a ELSE a

\* The Python slice s[a:b] for 0 <= a <= b
PySlice(s, a, b) == SubSeq(s, Min(a, Len(s)) + 1, Min(b, Len(s)))

\* Genome.META_INDICES
META_INDICES ==
    [colors |-> <<0, 12>>, fuzziness |-> <<12, 13>>, const_bounds |-> <<13, 15>>,
     fun_gen_depth |-> <<15, 16>>, incr_range |-> <<16, 17>>, mult_range |-> <<17, 18>>,
     mute |-> <<18, 19>>, genome |-> <<19, 20>>, gene_action |-> <<20, 21>>,
     struct_mod |-> <<21, 22>>, leaf_type |-> <<22, 23>>, genome_rel |-> <<23, 28>>,
     const_rel |-> <<28, 32>>, leaf_rel |-> <<32, 36>>, enum_rel |-> <<36, 39>>,
     struct_rel |-> <<39, 42>>]

\* Genome.meta_item
meta_item(meta_sequence, name) ==
    LET item == PySlice(meta_sequence, META_INDICES[name][1], META_INDICES[name][2])
    IN  IF Len(item) = 1 THEN item[1] ELSE item

\* str(float(tok)) for the forms the model covers: an integer-valued float
\* prints as "n.0", any other decimal is taken to be in its printed form
FloatRepr(tok) == IF Integral(tok) THEN FloatStr(PyFloat(tok)) ELSE tok

\* The metagenome is held as the printed forms of its floats, in the order of
\* META_INDICES; these are the fields the model computes with.
fuzziness(g) == PyFloat(meta_item(g.meta, "fuzziness"))
fun_gen_depth(g) == PyFloat(meta_item(g.meta, "fun_gen_depth"))
incr_range(g) == PyFloat(meta_item(g.meta, "incr_range"))
mult_range(g) == PyFloat(meta_item(g.meta, "mult_range"))

\* Genome.fuzzify: the nodes whose operator is Equ, Les or Gre get the fuzzy
\* lambda of that operator; no other node's _evaluate_ is touched
RECURSIVE fuzzify(_)
fuzzify(func_node) ==
    IF is_leaf(func_node) THEN func_node
    ELSE [func_node EXCEPT
            !.ev = IF func_node.operator \in {OpEqu, OpLes, OpGre}
                   THEN func_node.operator ELSE @,
            !.left = fuzzify(func_node.left),
            !.right = fuzzify(func_node.right)]

\* Mutant: the index is reduced as a remainder of the magnitude
RECURSIVE link_funcAbs(_, _, _)
link_funcAbs(genes, func_node, index) ==
    IF ~is_leaf(func_node)
    THEN LET l == link_funcAbs(genes, func_node.left, index)
             r == link_funcAbs(genes, func_node.right, index)
         IN  [ok |-> TRUE, node |-> [func_node EXCEPT !.left = l.node, !.right = r.node]]
    ELSE LET ref_index == Abs(func_node.val + index) % Len(genes)
         IN  [ok |-> TRUE,
              node |-> IF func_node.ref_type = Pure_Offset_Call
                       THEN [func_node EXCEPT !.ref = FuncRef(genes[ref_index + 1].function)]
                       ELSE IF func_node.ref_type = Impure_Offset_Call
                       THEN [func_node EXCEPT !.ref = GeneRef(genes[ref_index + 1])]
                       ELSE func_node]

\* Genome.link_func: every leaf computes round(val) and ref_index, offset
\* leaves are rebound.  The result is [ok, node]; ok is FALSE where round()
\* raises, and the leaves after that one are left as they were.
RECURSIVE link_func(_, _, _)
link_func(genes, func_node, index) ==
    IF ~is_leaf(func_node)
    THEN LET l == link_func(genes, func_node.left, index)
         IN  IF ~l.ok THEN [ok |-> FALSE, node |-> [func_node EXCEPT !.left = l.node]]
             ELSE LET r == link_func(genes, func_node.right, index)
                  IN  [ok |-> r.ok,
                       node |-> [func_node EXCEPT !.left = l.node, !.right = r.node]]
    ELSE IF RoundRaises(func_node.val) THEN [ok |-> FALSE, node |-> func_node]
    ELSE LET ref_index == (func_node.val + index) % Len(genes)
         IN  [ok |-> TRUE,
              node |-> IF func_node.ref_type = Pure_Offset_Call
                       THEN [func_node EXCEPT !.ref = FuncRef(genes[ref_index + 1].function)]
                       ELSE IF func_node.ref_type = Impure_Offset_Call
                       THEN [func_node EXCEPT !.ref = GeneRef(genes[ref_index + 1])]
                       ELSE func_node]

\* The loop of Genome.link from gene i on: [ok, genes].  The leaves are bound
\* to the gene and function objects, whose identities (gid, root id) the pass
\* does not change.
RECURSIVE link_from(_, _)
link_from(genes, i) ==
    IF i > Len(genes) THEN [ok |-> TRUE, genes |-> genes]
    ELSE LET f == link_func(genes, genes[i].function, i - 1)
             linked == [genes EXCEPT ![i].function = f.node]
         IN  IF ~f.ok THEN [ok |-> FALSE, genes |-> linked]
             ELSE link_from(linked, i + 1)

\* Genome.link
link(genes) == link_from(genes, 1)

\* The gene loop of Genome.__init__ over the parts i..Len(parts): [ok, genes, next]
RECURSIVE ParseGenes(_, _, _)
ParseGenes(parts, i, id) ==
    IF i > Len(parts) THEN [ok |-> TRUE, genes |-> <<>>, next |-> id]
    ELSE LET toks == parts[i]
             bad == [ok |-> FALSE, genes |-> <<>>, next |-> id]
         IN  IF Len(toks) = 0 THEN bad
             ELSE IF ~IntSyntax(toks[1]) THEN bad
             ELSE IF PyInt(toks[1]) \notin 0..(NumActions - 1) THEN bad
             ELSE LET f == parse_func(Tail(toks), 0, id)
                  IN  IF ~f.ok THEN bad
                      ELSE LET more == ParseGenes(parts, i + 1, f.next)
                           IN  IF ~more.ok THEN bad
                               ELSE [ok |-> TRUE,
                                     genes |-> <<Gene(i, PyInt(toks[1]), fuzzify(f.node))>>
                                               \o more.genes,
                                     next |-> more.next]

\* Genome.__init__ up to the call of link: every meta token is read by
\* float(), the coding region is split and every gene parsed and fuzzified.
\* The Gene objects are made first (gid 1..n), the tree nodes after them.
GenomeParse(meta, sequence) ==
    LET parts == SplitBar(sequence)
        p == ParseGenes(parts, 1, Len(parts) + 1)
    IN  IF \E k \in 1..Len(meta) : ~FloatSyntax(meta[k])
        THEN [ok |-> FALSE, meta |-> <<>>, genes |-> <<>>, next |-> 1]
        ELSE [ok |-> p.ok, meta |-> [k \in 1..Len(meta) |-> FloatRepr(meta[k])],
              genes |-> p.genes, next |-> p.next]

\* Genome.__init__(meta, sequence): [ok, meta, genes, next]
GenomeInit(meta, sequence) ==
    LET g == GenomeParse(meta, sequence)
        l == link(g.genes)
    IN  IF ~g.ok THEN g ELSE [g EXCEPT !.ok = l.ok, !.genes = l.genes]

\* Genome.sequences: the meta string and the coding string, as token lists
sequences(g) ==
    <<g.meta, JoinBar([i \in 1..Len(g.genes) |-> GeneStr(g.genes[i])])>>

-----------------------------------------------------------------------------
(* The agent runtime (goomba.py)                                            *)

EXEC_STACK_SIZE == 5
NUM_INIT_FUNS == 30
GENE_QUEUE_SIZE == 100
MEM_SIZE == 200

\* Number of think() calls the model follows
MaxTicks == 2


\* Python's l % r for r # 0: the result has the sign of r
PyMod(l, r) == IF r > 0 THEN l % r ELSE -((-l) % (-r))

RECURSIVE IntPow(_, _)
IntPow(l, r) == IF r = 0 THEN 1 ELSE l * IntPow(l, r - 1)

\* Mutant: division and remainder by zero give 0 in place of the left operand
Evaluate_ZeroDivisor(ev, f, l, r) ==
    CASE ev = OpAdd -> l + r
      [] ev = OpSub -> l - r
      [] ev = OpMul -> l * r
      [] ev = OpDiv -> IF r = 0 THEN 0
                       ELSE IF PyMod(l, r) = 0 THEN (IF r > 0 THEN l \div r ELSE (-l) \div (-r))
                       ELSE Inexact
      [] ev = OpMod -> IF r = 0 THEN 0 ELSE PyMod(l, r)
      [] ev = OpPow -> IF l = 0 THEN 0
                       ELSE IF r >= 0 THEN IntPow(l, r)
                       ELSE IF l = 1 THEN 1
                       ELSE Inexact
      [] OTHER -> 0

\* FTreeNode.__init__'s lambdas and Genome.fuzzify's fuzzy forms, on integers.
\* `ev` is the operator the node's _evaluate_ was bound for, f the fuzziness.
Evaluate_(ev, f, l, r) ==
    CASE ev = OpAdd -> l + r
      [] ev = OpSub -> l - r
      [] ev = OpMul -> l * r
      [] ev = OpDiv -> IF r = 0 THEN l
                       ELSE IF PyMod(l, r) = 0 THEN (IF r > 0 THEN l \div r ELSE (-l) \div (-r))
                       ELSE Inexact
      [] ev = OpMod -> IF r = 0 THEN l ELSE PyMod(l, r)
      [] ev = OpPow -> IF l = 0 THEN 0
                       ELSE IF r >= 0 THEN IntPow(l, r)
                       ELSE IF l = 1 THEN 1
                       ELSE Inexact
      [] ev = OpEqu -> LET n == Max(0, f - Abs(l - r))
                       IN  IF n % f = 0 THEN n \div f ELSE Inexact
      [] ev = OpLes -> LET n == Min(f, Max(0, r - l))
                       IN  IF n % f = 0 THEN n \div f ELSE Inexact
      [] ev = OpGre -> LET n == Min(f, Max(0, l - r))
                       IN  IF n % f = 0 THEN n \div f ELSE Inexact
      [] OTHER -> 0

\* Mutant: a plain list in place of the bounded deque
ListAppend(q, x, maxlen) == Append(q, x)

\* Mutant: the deque is filled from the left
DequeAppendLeft(q, x, maxlen) ==
    IF maxlen = 0 THEN q
    ELSE IF Len(q) >= maxlen THEN <<x>> \o SubSeq(q, 1, Len(q) - 1)
    ELSE <<x>> \o q

\* collections.deque(maxlen).append: a full deque drops its leftmost item
DequeAppend(q, x, maxlen) ==
    IF maxlen = 0 THEN q
    ELSE IF Len(q) >= maxlen THEN Append(Tail(q), x)
    ELSE Append(q, x)

\* Goomba.peek_memory
peek_memory == IF Len(memory) > 0 THEN memory[Len(memory)] ELSE 0

\* Goomba.express_genome's sensor_funcs, read when the leaf is called
SensorValue(val) ==
    LET sensor == val % NumSensors
    IN  CASE sensor = PosX -> pos[1]
          [] sensor = PosY -> pos[2]
          [] sensor = OriX -> ori[1]
          [] sensor = OriY -> ori[2]
          [] sensor = State -> state
          [] sensor = Mem -> peek_memory
          [] OTHER -> sensors[sensor]

\* list.index
IndexOf(seq, x) == CHOOSE i \in 1..Len(seq) : seq[i] = x /\ \A j \in 1..(i - 1) : seq[j] # x

\* Mutant: Promote and Demote make the first only of the two assignments of
\* their swap
gedanken_actionHalfSwap(a, genes, action, val) ==
    LET index == val % Len(genes)
        oi == IndexOf(a.expr_order, index)
    IN  CASE action = Promote /\ oi # 1 ->
                [a EXCEPT !.expr_order = [@ EXCEPT ![oi] = a.expr_order[oi - 1]]]
          [] action = Demote /\ oi # Len(genes) ->
                [a EXCEPT !.expr_order = [@ EXCEPT ![oi] = a.expr_order[oi + 1]]]
          [] OTHER -> a

\* Goomba.gedanken_action on the agent fields a = [gene_queue, expr_order,
\* memory, state, intent_weights]; genes are the genome's genes
gedanken_action(a, genes, action, val) ==
    LET index == val % Len(genes)
        oi == IndexOf(a.expr_order, index)
    IN  CASE action = Nop -> a
          [] action = Call ->
                IF Len(a.gene_queue) < GENE_QUEUE_SIZE
                THEN [a EXCEPT !.gene_queue =
                          DequeAppend(@, genes[index + 1].gid, GENE_QUEUE_SIZE)]
                ELSE a
          [] action = Promote ->
                IF oi # 1
                THEN [a EXCEPT !.expr_order =
                          [@ EXCEPT ![oi] = a.expr_order[oi - 1], ![oi - 1] = index]]
                ELSE a
          [] action = Demote ->
                IF oi # Len(genes)
                THEN [a EXCEPT !.expr_order =
                          [@ EXCEPT ![oi] = a.expr_order[oi + 1], ![oi + 1] = index]]
                ELSE a
          [] action = Remember ->
                [a EXCEPT !.memory = DequeAppend(@, val, MEM_SIZE)]
          [] action = Forget ->
                IF Len(a.memory) > 0
                THEN [a EXCEPT !.memory = SubSeq(@, 1, Len(@) - 1)]
                ELSE a
          [] action = SetState -> [a EXCEPT !.state = val]
          [] OTHER -> [a EXCEPT !.intent_weights[action] = @ + val]

NoNode == FTreeLeaf(0, NoneRef, Constant, 0, FALSE, 0)

Frame(t, n, g) == [t |-> t, n |-> n, g |-> g]

\* The gene object / the gene whose function object a reference names
GeneOf(ref) ==
    CHOOSE g \in {genome.genes[i] : i \in 1..Len(genome.genes)} :
        IF ref.k = "gene" THEN g.gid = ref.id ELSE g.function.id = ref.id

GeneById(gid) == GeneOf([k |-> "gene", id |-> gid])

Running == pc = "think" /\ kont # <<>>

IsOffset(n) == is_leaf(n) /\ n.ref_type \in {Pure_Offset_Call, Impure_Offset_Call}

mindVars == <<gene_queue, memory, state, intent_weights, expr_order>>
bodyVars == <<genome, sensors, pos, ori, ticks, benchVars>>

\* world.TileState
Boundary == -1
Clean == 0
Dirty == 1

\* The (Tile, Rand, Front, Left, Right) snapshots sense() takes in the model
SenseSamples == {<<Clean, 0, Clean, Boundary, Dirty>>, <<Dirty, 1, Boundary, Clean, Clean>>}

\* The seeding loop of Goomba.think: genes[i] for i < min(NUM_INIT_FUNS, len(expr_order))
RECURSIVE SeedFrom(_, _, _, _)
SeedFrom(q, genes, i, n) ==
    IF i >= n THEN q
    ELSE SeedFrom(DequeAppend(q, genes[i + 1].gid, GENE_QUEUE_SIZE), genes, i + 1, n)

SeedQueue(genes, order) == SeedFrom(<<>>, genes, 0, Min(NUM_INIT_FUNS, Len(order)))

\* Goomba.sense: the snapshot of the tile under the agent, the three tiles
\* around it and the random bit.  The tile values come from the world.
Sense ==
    /\ pc = "idle"
    /\ ticks < MaxTicks
    /\ \E snap \in SenseSamples :
          sensors' = [sensors EXCEPT ![Tile] = snap[1], ![Rand] = snap[2],
                                     ![Front] = snap[3], ![Left] = snap[4],
                                     ![Right] = snap[5]]
    /\ pc' = "sensed"
    /\ last' = "Sense"
    /\ UNCHANGED <<genome, gene_queue, exec_depth, memory, state, intent_weights,
                   expr_order, pos, ori, thoughts, qi, kont, vals, ticks, benchVars>>

\* Goomba.think up to its while loop: fresh_intent, then the queue is seeded
Think ==
    /\ pc = "sensed"
    /\ intent_weights' = [e \in {EFFECTS[i] : i \in 1..Len(EFFECTS)} |-> 0]
    /\ gene_queue' = SeedQueue(genome.genes, expr_order)
    /\ qi' = 0
    /\ pc' = "think"
    /\ ticks' = ticks + 1
    /\ last' = "Think"
    /\ UNCHANGED <<genome, exec_depth, memory, state, expr_order, sensors, pos, ori,
                   thoughts, kont, vals, benchVars>>

\* One iteration of think's while loop begins: run_gene(gene_queue[i])
QueueRun ==
    /\ pc = "think" /\ kont = <<>>
    /\ qi < Len(gene_queue)
    /\ LET gene == GeneById(gene_queue[qi + 1])
       IN  IF exec_depth >= EXEC_STACK_SIZE
           THEN /\ kont' = <<Frame("next", NoNode, 0)>>
                /\ vals' = Append(vals, 0)
                /\ UNCHANGED exec_depth
           ELSE /\ exec_depth' = exec_depth + 1
                /\ kont' = <<Frame("eval", gene.function, 0), Frame("retg", NoNode, gene.gid),
                             Frame("next", NoNode, 0)>>
                /\ UNCHANGED vals
    /\ last' = "QueueRun"
    /\ UNCHANGED <<mindVars, bodyVars, thoughts, qi, pc>>

\* run_gene returned to the while loop: its value is dropped, i += 1
QueueNext ==
    /\ Running /\ Head(kont).t = "next"
    /\ qi' = qi + 1
    /\ vals' = SubSeq(vals, 1, Len(vals) - 1)
    /\ kont' = Tail(kont)
    /\ last' = "QueueNext"
    /\ UNCHANGED <<mindVars, bodyVars, exec_depth, thoughts, pc>>

\* Mutant: the loop condition compares with <= and never lets think return
ThinkEndOffByOne ==
    /\ pc = "think" /\ kont = <<>>
    /\ qi > Len(gene_queue)
    /\ pc' = "idle"
    /\ last' = "ThinkEnd"
    /\ UNCHANGED <<mindVars, bodyVars, exec_depth, thoughts, qi, kont, vals>>

\* The while loop ends: think returns
ThinkEnd ==
    /\ pc = "think" /\ kont = <<>>
    /\ qi >= Len(gene_queue)
    /\ pc' = "idle"
    /\ last' = "ThinkEnd"
    /\ UNCHANGED <<mindVars, bodyVars, exec_depth, thoughts, qi, kont, vals>>

\* FTreeNode.__call__, first half: the left operand, then the right
EvalNode ==
    /\ Running /\ Head(kont).t = "eval" /\ ~is_leaf(Head(kont).n)
    /\ LET n == Head(kont).n
       IN  kont' = <<Frame("eval", n.left, 0), Frame("eval", n.right, 0),
                     Frame("op", n, 0)>> \o Tail(kont)
    /\ last' = "EvalNode"
    /\ UNCHANGED <<mindVars, bodyVars, exec_depth, thoughts, qi, vals, pc>>

\* FTreeNode.__call__, second half: _evaluate_ on the two results
ApplyOp ==
    /\ Running /\ Head(kont).t = "op"
    /\ LET n == Head(kont).n
           r == vals[Len(vals)]
           l == vals[Len(vals) - 1]
       IN  vals' = Append(SubSeq(vals, 1, Len(vals) - 2),
                          Evaluate_(n.ev, fuzziness(genome), l, r))
    /\ kont' = Tail(kont)
    /\ last' = "ApplyOp"
    /\ UNCHANGED <<mindVars, bodyVars, exec_depth, thoughts, qi, pc>>

\* FTreeLeaf.__call__ of a Constant leaf
EvalConstant ==
    /\ Running /\ Head(kont).t = "eval" /\ is_leaf(Head(kont).n)
    /\ Head(kont).n.ref_type = Constant
    /\ vals' = Append(vals, Head(kont).n.val)
    /\ kont' = Tail(kont)
    /\ last' = "EvalConstant"
    /\ UNCHANGED <<mindVars, bodyVars, exec_depth, thoughts, qi, pc>>

\* FTreeLeaf.__call__ of a Poll_Sensor leaf: the sensor function is called
EvalSensor ==
    /\ Running /\ Head(kont).t = "eval" /\ is_leaf(Head(kont).n)
    /\ Head(kont).n.ref_type = Poll_Sensor
    /\ vals' = Append(vals, SensorValue(Head(kont).n.val))
    /\ kont' = Tail(kont)
    /\ last' = "EvalSensor"
    /\ UNCHANGED <<mindVars, bodyVars, exec_depth, thoughts, qi, pc>>

\* run_func / run_gene entered at the depth bound: return 0
CallSaturated ==
    /\ Running /\ Head(kont).t = "eval" /\ IsOffset(Head(kont).n)
    /\ exec_depth >= EXEC_STACK_SIZE
    /\ vals' = Append(vals, 0)
    /\ kont' = Tail(kont)
    /\ last' = "CallSaturated"
    /\ UNCHANGED <<mindVars, bodyVars, exec_depth, thoughts, qi, pc>>

\* Mutant: a pure offset leaf is run as a gene, action and all
CallFuncDispatching ==
    /\ Running /\ Head(kont).t = "eval" /\ is_leaf(Head(kont).n)
    /\ Head(kont).n.ref_type = Pure_Offset_Call
    /\ exec_depth < EXEC_STACK_SIZE
    /\ exec_depth' = exec_depth + 1
    /\ kont' = <<Frame("eval", GeneOf(Head(kont).n.ref).function, 0),
                 Frame("retg", NoNode, GeneOf(Head(kont).n.ref).gid)>> \o Tail(kont)
    /\ last' = "CallFunc"
    /\ UNCHANGED <<mindVars, bodyVars, thoughts, qi, vals, pc>>

\* run_func below the bound: depth += 1, func() is called
CallFunc ==
    /\ Running /\ Head(kont).t = "eval" /\ is_leaf(Head(kont).n)
    /\ Head(kont).n.ref_type = Pure_Offset_Call
    /\ exec_depth < EXEC_STACK_SIZE
    /\ exec_depth' = exec_depth + 1
    /\ kont' = <<Frame("eval", GeneOf(Head(kont).n.ref).function, 0),
                 Frame("retf", NoNode, 0)>> \o Tail(kont)
    /\ last' = "CallFunc"
    /\ UNCHANGED <<mindVars, bodyVars, thoughts, qi, vals, pc>>

\* Mutant: run_gene compares the depth with > instead of >=
CallGeneOffByOne ==
    /\ Running /\ Head(kont).t = "eval" /\ is_leaf(Head(kont).n)
    /\ Head(kont).n.ref_type = Impure_Offset_Call
    /\ exec_depth <= EXEC_STACK_SIZE
    /\ exec_depth' = exec_depth + 1
    /\ kont' = <<Frame("eval", GeneOf(Head(kont).n.ref).function, 0),
                 Frame("retg", NoNode, Head(kont).n.ref.id)>> \o Tail(kont)
    /\ last' = "CallGene"
    /\ UNCHANGED <<mindVars, bodyVars, thoughts, qi, vals, pc>>

\* run_gene below the bound: depth += 1, gene.evaluate() is called
CallGene ==
    /\ Running /\ Head(kont).t = "eval" /\ is_leaf(Head(kont).n)
    /\ Head(kont).n.ref_type = Impure_Offset_Call
    /\ exec_depth < EXEC_STACK_SIZE
    /\ exec_depth' = exec_depth + 1
    /\ kont' = <<Frame("eval", GeneOf(Head(kont).n.ref).function, 0),
                 Frame("retg", NoNode, Head(kont).n.ref.id)>> \o Tail(kont)
    /\ last' = "CallGene"
    /\ UNCHANGED <<mindVars, bodyVars, thoughts, qi, vals, pc>>

\* run_func after func() returned
RetFunc ==
    /\ Running /\ Head(kont).t = "retf"
    /\ exec_depth' = exec_depth - 1
    /\ thoughts' = thoughts + 1
    /\ kont' = Tail(kont)
    /\ last' = "RetFunc"
    /\ UNCHANGED <<mindVars, bodyVars, qi, vals, pc>>

\* run_gene after gene.evaluate() returned: the gene's action is dispatched
RetGene ==
    /\ Running /\ Head(kont).t = "retg"
    /\ LET gene == GeneById(Head(kont).g)
           a == gedanken_action([gene_queue |-> gene_queue, expr_order |-> expr_order,
                                 memory |-> memory, state |-> state,
                                 intent_weights |-> intent_weights],
                                genome.genes, gene.action, vals[Len(vals)])
       IN  /\ gene_queue' = a.gene_queue
           /\ expr_order' = a.expr_order
           /\ memory' = a.memory
           /\ state' = a.state
           /\ intent_weights' = a.intent_weights
    /\ exec_depth' = exec_depth - 1
    /\ thoughts' = thoughts + 1
    /\ kont' = Tail(kont)
    /\ last' = "RetGene"
    /\ UNCHANGED <<bodyVars, qi, vals, pc>>

\* One step of the evaluation that think() runs
ThinkStep ==
    \/ QueueRun \/ QueueNext \/ ThinkEnd
    \/ EvalNode \/ ApplyOp \/ EvalConstant \/ EvalSensor
    \/ CallSaturated \/ CallFunc \/ CallGene \/ RetFunc \/ RetGene

-----------------------------------------------------------------------------
(* The agents the model runs: coding regions as Genome.__init__ takes them  *)

\* 1 [0
TextSelfPure ==
    <<<<"1">>, <<"[", "0">>>>

\* 3 + {0 {0
TextSelfImpure ==
    <<<<"3">>, <<"+">>, <<"{", "0">>, <<"{", "0">>>>

\* 7 [1 | 10 + {-1 1
TextMutual ==
    <<<<"7">>, <<"[", "1">>, <<"|">>, <<"1", "0">>, <<"+">>, <<"{", "-", "1">>, <<"1">>>>

\* 7 * 0 + {1 {1 | 10 + $11 1
TextCallFill ==
    <<<<"7">>, <<"*">>, <<"0">>, <<"+">>, <<"{", "1">>, <<"{", "1">>, <<"|">>, <<"1", "0">>, <<"+">>, <<"$", "1", "1">>, <<"1">>>>

\* 8 $10 | 9 $11 | 11 $2 | 12 + $10 1 | 0 $1 | 5 * $5 2 | 6 % $6 2 | 2 $8 | 4 - $3 $4 | 10 $7
TextMind ==
    <<<<"8">>, <<"$", "1", "0">>, <<"|">>, <<"9">>, <<"$", "1", "1">>, <<"|">>, <<"1", "1">>, <<"$", "2">>, <<"|">>, <<"1", "2">>, <<"+">>, <<"$", "1", "0">>, <<"1">>, <<"|">>, <<"0">>, <<"$", "1">>, <<"|">>, <<"5">>, <<"*">>, <<"$", "5">>, <<"2">>, <<"|">>, <<"6">>, <<"%">>, <<"$", "6">>, <<"2">>, <<"|">>, <<"2">>, <<"$", "8">>, <<"|">>, <<"4">>, <<"-">>, <<"$", "3">>, <<"$", "4">>, <<"|">>, <<"1", "0">>, <<"$", "7">>>>

\* 8 1 | 9 2 | 9 0: promotes gene 1 from rank 1 and then from rank 0,
\* demotes gene 2 at the last rank and gene 0 above it
TextShuffle ==
    <<<<"8">>, <<"1">>, <<"|">>, <<"9">>, <<"2">>, <<"|">>, <<"9">>, <<"0">>>>

ThinkTexts == {TextSelfPure, TextSelfImpure, TextMutual, TextCallFill, TextMind, TextShuffle}

\* A metagenome text of 42 fields: the colours and the rates are fractions,
\* the four fields the model computes with hold integers
MetaText(fuzz, depth, incr, mult) ==
    [k \in 1..42 |->
        CASE k = 13 -> FloatStr(fuzz)
          [] k = 14 -> FloatStr(-5)
          [] k = 15 -> FloatStr(5)
          [] k = 16 -> FloatStr(depth)
          [] k = 17 -> FloatStr(incr)
          [] k = 18 -> FloatStr(mult)
          [] k \in 24..42 -> FloatStr(1)
          [] OTHER -> <<"0", ".", "5">>]

\* The metagenome of run.py
ThinkMeta == MetaText(1, 3, 5, 2)

\* No world has been made
NoWorld == [goombas |-> <<>>, generation |-> 0, raised |-> "none"]

\* The variables of the other components, at rest
BenchIdle ==
    /\ mi = 0
    /\ mpc = "idle"
    /\ muts = 0
    /\ world = NoWorld
    /\ args = <<>>
    /\ ret = <<>>

\* The agent's variables before its first tick
AgentIdle ==
    /\ gene_queue = <<>>
    /\ exec_depth = 0
    /\ memory = <<>>
    /\ state = 0
    /\ intent_weights = [e \in {EFFECTS[i] : i \in 1..Len(EFFECTS)} |-> 0]
    /\ sensors = [s \in {Tile, Bump, Rand, Left, Front, Right} |-> 0]
    /\ pos = <<1, 1>>
    /\ thoughts = 0
    /\ qi = 0
    /\ kont = <<>>
    /\ vals = <<>>
    /\ pc = "idle"
    /\ ticks = 0
    /\ last = "init"

InitAgent ==
    /\ \E t \in ThinkTexts : genome = GenomeInit(ThinkMeta, t)
    /\ genome.ok
    /\ expr_order = [i \in 1..Len(genome.genes) |-> i - 1]
    /\ ori \in {<<1, 0>>, <<0, -1>>}
    /\ AgentIdle
    /\ BenchIdle

NextAgent == Sense \/ Think \/ ThinkStep

Spec == InitAgent /\ [][NextAgent]_vars

\* think() is a plain loop of a single thread: once entered it keeps running
FairSpec == Spec /\ WF_vars(ThinkStep)

-----------------------------------------------------------------------------
(* Genome.link on genomes whose offset leaves hold raw values of either     *)
(* sign, inside and outside the range of gene indices                       *)

MaxLinkGenes == 3
MaxOffset == 4

OffsetTypes == {Pure_Offset_Call, Impure_Offset_Call}

\* The token of an offset leaf
OffsetTok(t, v) == REF_DELIMS(t) \o IntStr(v)

\* A coding text of n genes: gene p is "0 + <t1 v1> <t2 v2>", the others "1 {1"
LinkText(n, p, t1, v1, t2, v2) ==
    JoinBar([i \in 1..n |->
        IF i = p THEN <<IntStr(Nop), <<"+">>, OffsetTok(t1, v1), OffsetTok(t2, v2)>>
        ELSE <<IntStr(Forward), OffsetTok(Impure_Offset_Call, 1)>>])

\* The genome is parsed and fuzzified and about to be linked
InitLink ==
    /\ \E n \in 1..MaxLinkGenes, p \in 1..MaxLinkGenes, t1 \in OffsetTypes, t2 \in OffsetTypes,
          v1 \in -MaxOffset..MaxOffset, v2 \in -MaxOffset..MaxOffset :
          /\ p <= n
          /\ genome = GenomeParse(ThinkMeta, LinkText(n, p, t1, v1, t2, v2))
    /\ expr_order = <<>>
    /\ ori = <<1, 0>>
    /\ AgentIdle
    /\ mi = 0 /\ muts = 0 /\ world = NoWorld /\ args = <<>> /\ ret = <<>>
    /\ mpc = "new"

\* Genome.link, called at the end of Genome.__init__
Link ==
    /\ mpc = "new"
    /\ LET l == link(genome.genes)
       IN  /\ genome' = [genome EXCEPT !.ok = l.ok, !.genes = l.genes]
           /\ mpc' = IF l.ok THEN "idle" ELSE "raised"
    /\ last' = "link"
    /\ UNCHANGED <<gene_queue, exec_depth, memory, state, intent_weights, expr_order,
                   sensors, pos, ori, thoughts, qi, kont, vals, pc, ticks,
                   mi, muts, world, args, ret>>

LinkSpec == InitLink /\ [][Link]_vars

-----------------------------------------------------------------------------
(* Goomba.score                                                             *)

\* goomba.Count
Dirt == 0
FwdMoves == 1
BckwdMoves == 2
Bumps == 3
LeftTurns == 4
RightTurns == 5
Sucks == 6
Thoughts == 7
GenomeSize == 8
TilesCovered == 9
NumCounts == 10

\* Goomba.COUNT_VALUES in tenths (Thoughts weighs -0.1), indexed by Count + 1
COUNT_VALUES == <<10000, -100, -100, -500, -100, -100, 200, -1, -50, 1000>>

\* The literal -9999999999999999999 score returns for a motionless agent; it
\* lies below every weighted sum, and is held apart from them by a flag
MIN_SCORE == [motionless |-> TRUE, tenths |-> 0]

RECURSIVE WeightedSum(_, _)
WeightedSum(counts, n) ==
    IF n = 0 THEN 0 ELSE WeightedSum(counts, n - 1) + counts[n] * COUNT_VALUES[n]

\* Mutant: the score is the weighted sum for every agent
scoreSum(counts) == [motionless |-> FALSE, tenths |-> WeightedSum(counts, NumCounts)]

\* Goomba.score, on the list of counts indexed by Count + 1
score(counts) ==
    IF counts[FwdMoves + 1] + counts[BckwdMoves + 1] = 0 THEN MIN_SCORE
    ELSE [motionless |-> FALSE, tenths |-> WeightedSum(counts, NumCounts)]

MaxCount == 1

\* The other components at rest, for the calls of pure functions
CallIdle ==
    /\ genome = [ok |-> TRUE, meta |-> <<>>, genes |-> <<>>, next |-> 1]
    /\ expr_order = <<>>
    /\ ori = <<1, 0>>
    /\ AgentIdle
    /\ mi = 0 /\ mpc = "idle" /\ muts = 0 /\ world = NoWorld
    /\ ret = <<>>

callVars == <<genome, gene_queue, exec_depth, memory, state, intent_weights, expr_order,
              sensors, pos, ori, thoughts, qi, kont, vals, pc, ticks, mi, mpc, muts,
              world>>

InitScore ==
    /\ args \in [1..NumCounts -> 0..MaxCount]
    /\ CallIdle

Score ==
    /\ last = "init"
    /\ ret' = score(args)
    /\ last' = "score"
    /\ UNCHANGED <<callVars, args>>

ScoreSpec == InitScore /\ [][Score]_vars

-----------------------------------------------------------------------------
(* Goomba.choose_action on the intent weights think() left                  *)

MaxWeight == 2

\* Mutant: the last action of the iteration is taken whatever the weights
choose_actionLast(weights) == EFFECTS[Len(EFFECTS)]

\* The loop of choose_action from the i-th item of intent_weights on;
\* strongest is the pair (action, weight) held so far.  The dict iterates in
\* the order of EFFECTS, in which __init__ and fresh_intent insert the keys.
RECURSIVE Strongest(_, _, _)
Strongest(weights, i, strongest) ==
    IF i > Len(EFFECTS) THEN strongest
    ELSE Strongest(weights, i + 1,
                   IF weights[EFFECTS[i]] >= strongest[2]
                   THEN <<EFFECTS[i], weights[EFFECTS[i]]>>
                   ELSE strongest)

\* Goomba.choose_action: the intent it sets
choose_action(weights) == Strongest(weights, 1, <<Wait, 0>>)[1]

InitChoose ==
    /\ args \in [{EFFECTS[i] : i \in 1..Len(EFFECTS)} -> (-MaxWeight)..MaxWeight]
    /\ CallIdle

ChooseAction ==
    /\ last = "init"
    /\ ret' = choose_action(args)
    /\ last' = "choose_action"
    /\ UNCHANGED <<callVars, args>>

ChooseSpec == InitChoose /\ [][ChooseAction]_vars

-----------------------------------------------------------------------------
(* FTreeNode.__call__ on two operand values that are floats                 *)

MaxOperand == 4

\* The operator's lambda raises: a float power beyond the largest finite
\* float is an OverflowError
Raises(ev, l, r) == ev = OpPow /\ l # 0 /\ r >= 0 /\ Abs(IntPow(l, r)) > FloatMax

\* The operator's lambda returns an infinity: float sums, differences and
\* products overflow silently
Infinite(ev, l, r) ==
    CASE ev = OpAdd -> Abs(l + r) > FloatMax
      [] ev = OpSub -> Abs(l - r) > FloatMax
      [] ev = OpMul -> Abs(l * r) > FloatMax
      [] OTHER -> FALSE

\* FTreeNode.__call__ after its operands returned lres and rres: the value
\* of _evaluate_, or 0 where it raised or returned an infinity
NodeCall(ev, f, lres, rres) ==
    IF Raises(ev, lres, rres) THEN 0
    ELSE IF Infinite(ev, lres, rres) THEN 0
    ELSE Evaluate_(ev, f, lres, rres)

\* _evaluate_ returns a value the model holds: an integer
ExactResult(ev, f, l, r) ==
    CASE ev = OpDiv -> r = 0 \/ PyMod(l, r) = 0
      [] ev = OpPow -> l = 0 \/ r >= 0 \/ l = 1
      [] ev = OpEqu -> Max(0, f - Abs(l - r)) % f = 0
      [] ev = OpLes -> Min(f, Max(0, r - l)) % f = 0
      [] ev = OpGre -> Min(f, Max(0, l - r)) % f = 0
      [] OTHER -> TRUE

\* No leaf of the tree is a call of a gene or of a function
RECURSIVE CallFree(_)
CallFree(n) ==
    IF is_leaf(n) THEN ~IsOffset(n) ELSE CallFree(n.left) /\ CallFree(n.right)

\* FTreeNode.__call__ / FTreeLeaf.__call__ of a tree without calls, in a
\* genome of fuzziness f and the agent the sensors belong to: [exact, v]
RECURSIVE TreeValue(_, _)
TreeValue(n, f) ==
    IF is_leaf(n)
    THEN [exact |-> TRUE,
          v |-> IF n.ref_type = Constant THEN n.val ELSE SensorValue(n.val)]
    ELSE LET lres == TreeValue(n.left, f)
             rres == TreeValue(n.right, f)
         IN  IF lres.exact /\ rres.exact /\ ExactResult(n.ev, f, lres.v, rres.v)
             THEN [exact |-> TRUE, v |-> NodeCall(n.ev, f, lres.v, rres.v)]
             ELSE [exact |-> FALSE, v |-> 0]

\* The operands are finite: a node returns 0 for an infinity, link refuses
\* a constant that is one, and the sensors and the memory hold what nodes
\* and leaves returned
InitEval ==
    /\ \E op \in 0..(NumOps - 1), l \in (-MaxOperand)..MaxOperand,
          r \in (-MaxOperand)..MaxOperand : args = [op |-> op, l |-> l, r |-> r]
    /\ CallIdle

\* A node of a tree outside a genome (its _evaluate_ is the lambda of
\* __init__), or of a genome of fuzziness 1
Call_ ==
    /\ last = "init"
    /\ ret' = NodeCall(args.op, 1, args.l, args.r)
    /\ last' = "call"
    /\ UNCHANGED <<callVars, args>>

EvalSpec == InitEval /\ [][Call_]_vars

-----------------------------------------------------------------------------
(* parse_func and __str__ on Polish-notation token sequences                *)

\* Leaf tokens: offsets and sensors with and without a sign, constants with
\* and without a fraction
LeafTokens ==
    {<<"[", "1">>, <<"[", "-", "2">>, <<"{", "0">>, <<"{", "+", "3">>, <<"$", "1", "1">>,
     <<"2">>, <<"-", "1">>, <<"3", ".", "0">>, <<"0", "7">>}

NestTokens == {<<"[", "-", "2">>, <<"2">>, <<"$", "1", "1">>}

NestOps == {<<"-">>, <<"=">>}

\* Complete prefix expressions of up to two operators
PolishTexts ==
    {<<a>> : a \in LeafTokens}
    \cup {<<<<OP_STRINGS[o]>>, a, b>> : o \in 1..NumOps, a \in LeafTokens, b \in LeafTokens}
    \cup {<<o1, o2, a, b, c>> : o1 \in NestOps, o2 \in NestOps,
                                a \in NestTokens, b \in NestTokens, c \in NestTokens}
    \cup {<<o1, a, o2, b, c>> : o1 \in NestOps, o2 \in NestOps,
                                a \in NestTokens, b \in NestTokens, c \in NestTokens}

InitParse ==
    /\ args \in PolishTexts
    /\ CallIdle

\* str(parse_func(s)) and the same again on the tokens of that string
ParseStr ==
    /\ last = "init"
    /\ LET first == parse_func(args, 0, 1)
           text == IF first.ok THEN TreeStr(first.node) ELSE <<>>
           second == parse_func(text, 0, 1)
       IN  ret' = [first |-> first, text |-> text, second |-> second,
                   text2 |-> IF second.ok THEN TreeStr(second.node) ELSE <<>>]
    /\ last' = "parse_func"
    /\ UNCHANGED <<callVars, args>>

ParseSpec == InitParse /\ [][ParseStr]_vars

-----------------------------------------------------------------------------
(* The fuzzy operators of Genome.fuzzify in binary floating point.  A float *)
(* is an integer number of quanta with FloatPrec significant bits; 1.0 is   *)
(* 2^FracBits quanta; every operation rounds to nearest, ties to even.      *)

FloatPrec == 3
FracBits == 4

One == 2 ^ FracBits

\* The largest magnitude drawn for an operand
MaxQuanta == 2 * One

\* m >= 0 has at most FloatPrec significant bits
Representable(m) ==
    \E e \in 0..(FracBits + 2) : m % (2 ^ e) = 0 /\ m \div (2 ^ e) < 2 ^ FloatPrec

Floats == {m \in 0..(2 * MaxQuanta) : Representable(m)}

\* The float nearest to num / den (num >= 0, den > 0)
FloatRound(num, den) ==
    LET lo == CHOOSE m \in Floats :
                  m * den <= num /\ \A k \in Floats : k * den <= num => k <= m
        hi == CHOOSE m \in Floats :
                  m * den >= num /\ \A k \in Floats : k * den >= num => k >= m
    IN  IF lo = hi THEN lo
        ELSE IF 2 * num < (lo + hi) * den THEN lo
        ELSE IF 2 * num > (lo + hi) * den THEN hi
        ELSE IF (lo \div (hi - lo)) % 2 = 0 THEN lo ELSE hi

\* a - b
FloatSub(a, b) == IF a >= b THEN FloatRound(a - b, 1) ELSE -FloatRound(b - a, 1)

\* x / f for f > 0, in quanta
FloatDiv(x, f) == IF x >= 0 THEN FloatRound(x * One, f) ELSE -FloatRound((-x) * One, f)

\* Mutant: the difference is not clamped at 0
fuzzyEquUnclamped(l, r, f) == FloatDiv(FloatSub(f, Abs(FloatSub(l, r))), f)

\* lambda l, r: max(0, (self.fuzziness - abs(l - r))) / self.fuzziness
fuzzyEqu(l, r, f) == FloatDiv(Max(0, FloatSub(f, Abs(FloatSub(l, r)))), f)

\* lambda l, r: min(self.fuzziness, max(0, r - l)) / self.fuzziness
fuzzyLes(l, r, f) == FloatDiv(Min(f, Max(0, FloatSub(r, l))), f)

\* lambda l, r: min(self.fuzziness, max(0, l - r)) / self.fuzziness
fuzzyGre(l, r, f) == FloatDiv(Min(f, Max(0, FloatSub(l, r))), f)

InitFuzzy ==
    /\ \E l \in Floats, r \in Floats, f \in Floats, sign \in {-1, 1} :
          /\ l <= One /\ r <= MaxQuanta /\ f <= MaxQuanta /\ f > 0
          /\ args = [l |-> l, r |-> sign * r, f |-> f]
    /\ CallIdle

\* One evaluation of each fuzzified operator
EvaluateFuzzy ==
    /\ last = "init"
    /\ ret' = [equ |-> fuzzyEqu(args.l, args.r, args.f),
               les |-> fuzzyLes(args.l, args.r, args.f),
               gre |-> fuzzyGre(args.l, args.r, args.f)]
    /\ last' = "fuzzy"
    /\ UNCHANGED <<callVars, args>>

FuzzySpec == InitFuzzy /\ [][EvaluateFuzzy]_vars

-----------------------------------------------------------------------------
(* World.breed_pop (world.py).  A goomba of the population is the record    *)
(* [born, mum, dad, score, pos]: how it was made, the ranks of its parents  *)
(* in the ordered population it was bred from, and its score in tenths.     *)

\* World.CLONE_BEST_FRACTION, BREED_FRACTION and NEW_RANDOM_FRACTION, in hundredths
CLONE_BEST_FRACTION == 5
BREED_FRACTION == 50
NEW_RANDOM_FRACTION == 1

MaxPop == 4
MaxGenerations == 2

\* ceil(n * hundredths / 100)
CeilFraction(n, hundredths) == (n * hundredths + 99) \div 100

\* Mutant: the list is left as it is
Unsorted(pop) == pop

\* sorted(..., key=score, reverse=True): descending and stable
RECURSIVE SortedByScore(_)
SortedByScore(pop) ==
    IF Len(pop) = 0 THEN <<>>
    ELSE LET best == CHOOSE i \in 1..Len(pop) :
                        /\ \A j \in 1..Len(pop) : pop[j].score <= pop[i].score
                        /\ \A j \in 1..(i - 1) : pop[j].score < pop[i].score
         IN  <<pop[best]>> \o SortedByScore([k \in 1..(Len(pop) - 1) |->
                                                IF k < best THEN pop[k] ELSE pop[k + 1]])

NewGoomba(born, mum, dad) ==
    [born |-> born, mum |-> mum, dad |-> dad, score |-> 0, pos |-> 0]

\* util.weighted_choice(weighted_items, num_items) over n items of positive
\* weight: the lists of num_items picks it can return; none where its
\* closing assertion fails (range(num_items) is empty for num_items < 0)
weighted_choice(n, num_items) ==
    IF num_items < 0 THEN {} ELSE [1..num_items -> 1..n]

\* World.breed_pop for one list of picks and one sample of start locations
BredPopulation(pop, picks, start) ==
    LET pop_size == Len(pop)
        num_clones == CeilFraction(pop_size, CLONE_BEST_FRACTION)
        num_rand == CeilFraction(pop_size, NEW_RANDOM_FRACTION)
        clones == [k \in 1..num_clones |-> NewGoomba("clone", k, 0)]
        bred == [k \in 1..(Len(picks) \div 2) |->
                    NewGoomba("bred", picks[2 * k - 1], picks[2 * k])]
        rand == [k \in 1..num_rand |-> NewGoomba("rand", 0, 0)]
        new_goombas == clones \o bred \o rand
    IN  [k \in 1..Len(new_goombas) |->
            [new_goombas[k] EXCEPT !.pos = 1 + ((start + k) % (MaxPop + 1))]]

InitBreed ==
    /\ \E n \in 1..MaxPop :
          world = [goombas |-> [k \in 1..n |-> [NewGoomba("seed", 0, 0) EXCEPT !.pos = k]],
                   generation |-> 0, raised |-> "none"]
    /\ genome = [ok |-> TRUE, meta |-> <<>>, genes |-> <<>>, next |-> 1]
    /\ expr_order = <<>>
    /\ ori = <<1, 0>>
    /\ AgentIdle
    /\ mi = 0 /\ mpc = "idle" /\ muts = 0
    /\ args = <<>> /\ ret = <<>>

worldIdle == <<genome, gene_queue, exec_depth, memory, state, intent_weights, expr_order,
               sensors, pos, ori, thoughts, qi, kont, vals, pc, ticks, mi, mpc, muts, ret>>

\* An episode of World.step calls: the agents end it with some scores
Episode ==
    /\ world.raised = "none"
    /\ last \in {"init", "breed_pop"}
    /\ world.generation < MaxGenerations
    /\ \E scores \in [1..Len(world.goombas) -> {0, 10}] :
          world' = [world EXCEPT
                      !.goombas = [k \in 1..Len(world.goombas) |->
                                      [world.goombas[k] EXCEPT !.score = scores[k]]]]
    /\ last' = "step"
    /\ UNCHANGED <<worldIdle, args>>

\* World.next_gen from its call of breed_pop on: the population is ordered
\* and bred, the generation counter advances
BreedPop ==
    /\ last = "step"
    /\ LET ordered_pop == SortedByScore(world.goombas)
           pop_size == Len(world.goombas)
           num_clones == CeilFraction(pop_size, CLONE_BEST_FRACTION)
           num_bred == CeilFraction(pop_size, BREED_FRACTION)
           num_rand == CeilFraction(pop_size, NEW_RANDOM_FRACTION)
           pairs == weighted_choice(num_bred, 2 * (pop_size - (num_clones + num_rand)))
       IN  /\ args' = pop_size
           /\ IF pairs = {}
              THEN world' = [world EXCEPT !.raised = "AssertionError"]
              ELSE \E picks \in pairs, start \in 0..MaxPop :
                      world' = [world EXCEPT
                                  !.goombas = BredPopulation(ordered_pop, picks, start),
                                  !.generation = @ + 1]
    /\ last' = "breed_pop"
    /\ UNCHANGED worldIdle

BreedSpec == InitBreed /\ [][Episode \/ BreedPop]_vars

-----------------------------------------------------------------------------
(* Genome.mutate and Gene.mutate (genome.py).  The trees are edited as the  *)
(* Python edits them: through object identities and parent fields.  The     *)
(* random draws are inputs, taken from small sets.                          *)

MaxGenes == 3
MaxTreeSize == 3
MaxMuts == 2

\* The node object with identity id in the tree, NoNode if it is not there
RECURSIVE FindNode(_, _)
FindNode(n, id) ==
    IF n.id = id THEN n
    ELSE IF is_leaf(n) THEN NoNode
    ELSE LET l == FindNode(n.left, id)
         IN  IF l # NoNode THEN l ELSE FindNode(n.right, id)

Override(n, fields) == [k \in DOMAIN n |-> IF k \in DOMAIN fields THEN fields[k] ELSE n[k]]

\* Assignments to fields of the object id: the object changes wherever the
\* tree reaches it
RECURSIVE Put(_, _, _)
Put(n, id, fields) ==
    LET m == IF n.id = id THEN Override(n, fields) ELSE n
    IN  IF is_leaf(m) THEN m
        ELSE [m EXCEPT !.left = Put(m.left, id, fields), !.right = Put(m.right, id, fields)]

\* FTreeNode.copy / FTreeLeaf.copy: [node, next].  The children are copied
\* before the node is made; no copy is given a parent; a leaf keeps its ref
RECURSIVE copy(_, _)
copy(n, id) ==
    IF is_leaf(n)
    THEN [node |-> FTreeLeaf(id, n.ref, n.ref_type, n.val, n.fl, 0), next |-> id + 1]
    ELSE LET l == copy(n.left, id)
             r == copy(n.right, l.next)
         IN  [node |-> FTreeNode(r.next, n.operator, l.node, r.node, 0), next |-> r.next + 1]

\* random.choice(list(Op)) and random.choice(list(Action)), sampled
RandOps == {OpSub, OpEqu}
RandActions == {Forward, Call}

\* FTreeLeaf.random, sampled: the largest offset of either sign (a value
\* below gen_len times -1 or 1), a sensor, a constant within const_bounds
RandomLeaves(gen_len, parent, id) ==
    {FTreeLeaf(id, NoneRef, Pure_Offset_Call, -(gen_len - 1), FALSE, parent),
     FTreeLeaf(id, NoneRef, Impure_Offset_Call, gen_len - 1, FALSE, parent),
     FTreeLeaf(id, NoneRef, Poll_Sensor, State, FALSE, parent),
     FTreeLeaf(id, NoneRef, Constant, 2, TRUE, parent)}

\* FTreeNode.random(max_depth, ...) for max_depth <= 3: a leaf, or an
\* operator over two leaves (the children get max_depth 0 or 1)
RandomTrees(max_depth, gen_len, parent, id) ==
    IF max_depth <= 1 THEN RandomLeaves(gen_len, parent, id)
    ELSE {FTreeNode(id, op, l, r, parent) :
            op \in RandOps, l \in RandomLeaves(gen_len, id, id + 1),
            r \in RandomLeaves(gen_len, id, id + 2)}

\* mutated_intenum with mute_prob 1: increment, decrement, or any member
mutated_intenum(curr, n) == {(curr + 1) % n, (curr - 1) % n, n - 1}

\* mutated_int_in_range with mute_prob 1: increment, decrement, or randint
mutated_int_in_range(val, lo, hi) == {val + 1, val - 1, lo, hi}

\* x + y of two floats holding integers
FloatAdd(x, y) ==
    IF RoundRaises(x) THEN x
    ELSE IF x + y > FloatMax THEN Inf ELSE IF x + y < -FloatMax THEN -Inf ELSE x + y

\* mutated_num(num, 1.0, genome, [None, None]), for the draws that keep the
\* value an integer: Increment and Decrement by 1 (a draw below incr_range),
\* Incremult by mult_range - 1 (a factor in [1, mult_range))
mutated_num(num, g) ==
    (IF incr_range(g) > 1 THEN {FloatAdd(num, 1), FloatAdd(num, -1)} ELSE {num})
    \cup (IF mult_range(g) >= 2 THEN {FloatMul(num, mult_range(g) - 1)} ELSE {num})

\* node.parent.left / .right = new_node, or self.function = new_node: the
\* slot is found through the parent field of the node
Replace(gene, node, new_node) ==
    IF node.parent = 0 THEN [gene EXCEPT !.function = new_node]
    ELSE LET p == FindNode(gene.function, node.parent)
         IN  IF p = NoNode THEN gene
             ELSE IF p.left.id = node.id
             THEN [gene EXCEPT !.function = Put(@, p.id, [left |-> new_node])]
             ELSE [gene EXCEPT !.function = Put(@, p.id, [right |-> new_node])]

\* Gene.mutate, first branch: the action mutates
MutateAction(g, gene) ==
    {[gene |-> [gene EXCEPT !.action = a], next |-> g.next] :
        a \in mutated_intenum(gene.action, NumActions)}

\* StructMutes.SubTree on the node
MutateSubTree(g, gene, node) ==
    {[gene |-> Replace(gene, node, t), next |-> g.next + size(t)] :
        t \in RandomTrees(fun_gen_depth(g), Len(g.genes), node.parent, g.next)}

\* StructMutes.OpAbove on the node: the node's parent field is left as it was
MutateOpAbove(g, gene, node) ==
    {[gene |-> Replace(gene, node,
                       IF side = 0 THEN FTreeNode(g.next, op, node, t, node.parent)
                       ELSE FTreeNode(g.next, op, t, node, node.parent)),
      next |-> g.next + 1 + size(t)] :
        op \in RandOps, side \in {0, 1},
        t \in RandomTrees(fun_gen_depth(g), Len(g.genes), g.next, g.next + 1)}

\* StructMutes.Swap on the node: a leaf stands for its parent
MutateSwap(g, gene, node) ==
    LET target == IF is_leaf(node)
                  THEN (IF node.parent = 0 THEN NoNode
                        ELSE FindNode(gene.function, node.parent))
                  ELSE node
    IN  {[gene |-> IF target = NoNode THEN gene
                   ELSE [gene EXCEPT !.function =
                            Put(@, target.id, [left |-> target.right, right |-> target.left])],
          next |-> g.next]}

\* Gene.mutate, last branch, on an operator node: _evaluate_ is not rebound
MutateOperator(g, gene, node) ==
    {[gene |-> [gene EXCEPT !.function = Put(@, node.id, [operator |-> op])],
      next |-> g.next] : op \in mutated_intenum(node.operator, NumOps)}

\* Gene.mutate, last branch, on a leaf: its type changes.  A Constant's value
\* is rounded first; it is finite here, an infinity does not get past link
MutateLeafType(g, gene, node) ==
    {[gene |-> [gene EXCEPT !.function =
                   Put(@, node.id,
                       [ref_type |-> t,
                        fl |-> IF node.ref_type = Constant THEN FALSE ELSE node.fl])],
      next |-> g.next] : t \in (0..3) \ {node.ref_type}}

\* Gene.mutate, last branch, on a leaf: its value changes
MutateLeafValue(g, gene, node) ==
    LET vs == IF node.ref_type = Constant THEN mutated_num(node.val, g)
              ELSE IF node.ref_type = Poll_Sensor
              THEN mutated_int_in_range(node.val, 0, NumSensors - 1)
              ELSE mutated_int_in_range(node.val, -Len(g.genes), Len(g.genes))
    IN  {[gene |-> [gene EXCEPT !.function =
                       Put(@, node.id,
                           [val |-> v,
                            fl |-> IF node.ref_type = Constant THEN TRUE ELSE node.fl])],
          next |-> g.next] : v \in vs}

\* Gene.mutate(genome): every outcome [gene, next] for the draws
GeneMutate(g, gene) ==
    LET nodes == {as_list(gene.function)[k] : k \in 1..Len(as_list(gene.function))}
    IN  MutateAction(g, gene)
        \cup UNION {MutateSubTree(g, gene, n) \cup MutateOpAbove(g, gene, n)
                    \cup MutateSwap(g, gene, n) : n \in nodes}
        \cup UNION {IF is_leaf(n) THEN MutateLeafType(g, gene, n) \cup MutateLeafValue(g, gene, n)
                    ELSE MutateOperator(g, gene, n) : n \in nodes}

\* The metagenome with field k (counted from 0) holding the float v
MetaSet(meta, k, v) == [meta EXCEPT ![k + 1] = FloatStr(v)]

\* Step 5 of Genome.mutate, sampled: every field keeps its value (each
\* mutated_* call may return its argument), or one of fuzziness, incr_range
\* and mult_range is incremented by 1
MutatedMetas(g) ==
    {g.meta}
    \cup (IF incr_range(g) > 1
          THEN {MetaSet(g.meta, META_INDICES.fuzziness[1], fuzziness(g) + 1),
                MetaSet(g.meta, META_INDICES.incr_range[1], incr_range(g) + 1),
                MetaSet(g.meta, META_INDICES.mult_range[1], mult_range(g) + 1)}
          ELSE {})

\* The genomes mutate starts from: coding texts under a metagenome
\* 1 $0
TextSensor == <<<<"1">>, <<"$", "0">>>>

\* 0 8.0 | 7 + {1 [-1
TextConstCall ==
    <<<<"0">>, <<"8", ".", "0">>, <<"|">>, <<"7">>, <<"+">>, <<"{", "1">>, <<"[", "-", "1">>>>

\* 3 = 2.0 $10 | 5 [1
TextFuzzy ==
    <<<<"3">>, <<"=">>, <<"2", ".", "0">>, <<"$", "1", "0">>, <<"|">>, <<"5">>, <<"[", "1">>>>


\* fuzziness 1, leaves for random trees, increments below 5, factors below 3
MutateMeta == MetaText(1, 1, 5, 3)

\* As MutateMeta, with random trees of depth 2
DeepMeta == MetaText(2, 2, 5, 3)

\* What a call left behind: the exception it raised, and the child of a cross
Outcome(raised, child) == [raised |-> raised, child |-> child]

NoCall == Outcome("none", <<>>)

MutateSeeds ==
    {<<MutateMeta, TextSensor>>, <<MutateMeta, TextConstCall>>, <<DeepMeta, TextFuzzy>>}

genomeIdle == <<gene_queue, exec_depth, memory, state, intent_weights, expr_order,
                sensors, pos, ori, thoughts, qi, kont, vals, pc, ticks, world>>

InitGenome ==
    /\ \E s \in MutateSeeds : genome = GenomeInit(s[1], s[2])
    /\ expr_order = <<>>
    /\ ori = <<1, 0>>
    /\ AgentIdle
    /\ mi = 0 /\ mpc = "idle" /\ muts = 0 /\ world = NoWorld /\ args = <<>>
    /\ ret = NoCall

\* Genome.mutate is called: i = 0
MutateBegin ==
    /\ mpc = "idle"
    /\ muts < MaxMuts
    /\ mpc' = "mutate"
    /\ mi' = 0
    /\ ret' = NoCall
    /\ last' = "mutate"
    /\ UNCHANGED <<genome, muts, args, genomeIdle>>

\* A mutation of the gene at i is drawn
Mutating ==
    /\ mpc = "mutate"
    /\ mi < Len(genome.genes)
    /\ muts < MaxMuts
    /\ muts' = muts + 1
    /\ mpc' = "mutate"
    /\ UNCHANGED <<args, ret, genomeIdle>>

\* An iteration of the loop in which the gene does not mutate
MutSkip ==
    /\ mpc = "mutate"
    /\ mi < Len(genome.genes)
    /\ mi' = mi + 1
    /\ last' = "skip"
    /\ UNCHANGED <<genome, mpc, muts, args, ret, genomeIdle>>

\* The list with x inserted before the element at index i (counted from 0)
ListInsert(s, i, x) == SubSeq(s, 1, i) \o <<x>> \o SubSeq(s, i + 1, Len(s))

\* GenomeMutes.Insert
MutInsert ==
    /\ Mutating
    /\ Len(genome.genes) < MaxGenes
    /\ \E a \in RandActions,
          t \in RandomTrees(fun_gen_depth(genome), Len(genome.genes), 0, genome.next + 1) :
          genome' = [genome EXCEPT
                        !.genes = ListInsert(@, mi, Gene(genome.next, a, fuzzify(t))),
                        !.next = @ + 1 + size(t)]
    /\ mi' = mi + 2
    /\ last' = "insert"

\* GenomeMutes.Dupe
MutDupe ==
    /\ Mutating
    /\ Len(genome.genes) < MaxGenes
    /\ LET c == copy(genome.genes[mi + 1].function, genome.next + 1)
       IN  genome' = [genome EXCEPT
                         !.genes = ListInsert(@, mi, Gene(genome.next,
                                                          genome.genes[mi + 1].action,
                                                          fuzzify(c.node))),
                         !.next = c.next]
    /\ mi' = mi + 2
    /\ last' = "dupe"

\* Mutant: Delete goes on to the next index
MutDeleteAhead ==
    /\ Mutating
    /\ genome' = [genome EXCEPT
                     !.genes = SubSeq(@, 1, mi) \o SubSeq(@, mi + 2, Len(@))]
    /\ mi' = mi + 1
    /\ last' = "delete"

\* GenomeMutes.Delete
MutDelete ==
    /\ Mutating
    /\ genome' = [genome EXCEPT
                     !.genes = SubSeq(@, 1, mi) \o SubSeq(@, mi + 2, Len(@))]
    /\ mi' = mi
    /\ last' = "delete"

\* GenomeMutes.Invert
MutInvert ==
    /\ Mutating
    /\ LET swapindex == (mi + 1) % Len(genome.genes)
       IN  genome' = [genome EXCEPT
                         !.genes = [@ EXCEPT ![mi + 1] = genome.genes[swapindex + 1],
                                             ![swapindex + 1] = genome.genes[mi + 1]]]
    /\ mi' = mi + 1
    /\ last' = "invert"

\* GenomeMutes.MuteGene: Gene.mutate returns, and the gene is fuzzified
MutGene ==
    /\ Mutating
    /\ \E o \in GeneMutate(genome, genome.genes[mi + 1]) :
          /\ size(o.gene.function) <= MaxTreeSize
          /\ genome' = [genome EXCEPT
                           !.genes[mi + 1] = [o.gene EXCEPT !.function = fuzzify(@)],
                           !.next = o.next]
    /\ mi' = mi + 1
    /\ last' = "mute_gene"

\* The loop has ended: link, then the metagenome mutates
MutFinish ==
    /\ mpc = "mutate"
    /\ mi >= Len(genome.genes)
    /\ LET l == link(genome.genes)
       IN  IF ~l.ok
           THEN /\ genome' = [genome EXCEPT !.genes = l.genes]
                /\ mpc' = "raised"
                /\ ret' = Outcome("OverflowError", <<>>)
                /\ muts' = muts
           ELSE /\ \E m \in MutatedMetas(genome) :
                      /\ m # genome.meta => muts < MaxMuts
                      /\ genome' = [genome EXCEPT !.genes = l.genes, !.meta = m]
                      /\ muts' = IF m # genome.meta THEN muts + 1 ELSE muts
                /\ mpc' = "idle"
                /\ ret' = ret
    /\ last' = "mutate_end"
    /\ UNCHANGED <<mi, args, genomeIdle>>

\* random.randrange(len(meta_a)), sampled: the ends and the cuts around the
\* spliced colours
MetaCuts == {0, 5, 12, 13, 41}

\* Mutant: the child keeps the first parent's tree whole
cross_gene_sequencesKeep(gene_a, gene_b) ==
    IF Len(gene_a) = 0 \/ Len(gene_b) = 0 THEN {[ok |-> FALSE, text |-> <<>>]}
    ELSE LET func_a == parse_func(Tail(gene_a), 0, 1)
         IN  IF ~func_a.ok THEN {[ok |-> FALSE, text |-> <<>>]}
             ELSE {[ok |-> TRUE, text |-> <<new_action>> \o TreeStr(func_a.node)] :
                      new_action \in {gene_a[1], gene_b[1]}}

\* cross_gene_sequences(gene_a, gene_b) for every draw: [ok, text]; ok is
\* FALSE where a pop from an empty list raises IndexError
cross_gene_sequences(gene_a, gene_b) ==
    IF Len(gene_a) = 0 \/ Len(gene_b) = 0 THEN {[ok |-> FALSE, text |-> <<>>]}
    ELSE LET func_a == parse_func(Tail(gene_a), 0, 1)
             func_b == parse_func(Tail(gene_b), 0, func_a.next)
         IN  IF ~func_a.ok \/ ~func_b.ok THEN {[ok |-> FALSE, text |-> <<>>]}
             ELSE {[ok |-> TRUE,
                    text |-> <<new_action>> \o
                        (IF as_list(func_a.node)[a].parent = 0 THEN TreeStr(func_b.node)
                         ELSE LET node_a == as_list(func_a.node)[a]
                                  node_b == as_list(func_b.node)[b]
                                  parent == FindNode(func_a.node, node_a.parent)
                              IN  TreeStr(Put(func_a.node, parent.id,
                                              IF parent.left.id = node_a.id
                                              THEN [left |-> node_b]
                                              ELSE [right |-> node_b]))) ] :
                    new_action \in {gene_a[1], gene_b[1]},
                    a \in 1..Len(as_list(func_a.node)),
                    b \in 1..Len(as_list(func_b.node))}

\* cross_genome_sequences(seqs_a, seqs_b) for every draw: [ok, meta, main]
cross_genome_sequences(seqs_a, seqs_b) ==
    LET meta_a == seqs_a[1]
        meta_b == seqs_b[1]
        main_a == SplitBar(seqs_a[2])
        main_b == SplitBar(seqs_b[2])
    IN  UNION {
          LET new_meta == PySlice(meta_a, 0, meta_index)
                          \o PySlice(meta_b, meta_index, Len(meta_b))
              meta == PySlice(meta_a, 0, 6) \o PySlice(meta_b, 6, 12)
                      \o PySlice(new_meta, 12, Len(new_meta))
              new_main == PySlice(main_a, 0, main_index)
                          \o PySlice(main_b, main_index, Len(main_b))
          IN  {[ok |-> c.ok, meta |-> meta,
                main |-> IF c.ok THEN JoinBar([new_main EXCEPT ![main_index + 1] = c.text])
                         ELSE <<>>] :
                 c \in cross_gene_sequences(main_a[main_index + 1], main_b[main_index + 1])} :
          meta_index \in MetaCuts \cap (0..(Len(meta_a) - 1)),
          main_index \in 0..(Min(Len(main_a), Len(main_b)) - 1)}

\* The texts of the partner of a cross
PartnerTexts == {<<DeepMeta, TextFuzzy>>}

\* cross_genomes(genome_a, genome_b) with the genome as either parent:
\* cross_genome_sequences, then Genome(meta, main)
CrossGenomes ==
    /\ mpc = "idle"
    /\ \E partner \in PartnerTexts, first \in BOOLEAN :
          \E c \in IF first THEN cross_genome_sequences(sequences(genome), partner)
                   ELSE cross_genome_sequences(partner, sequences(genome)) :
             ret' = IF ~c.ok THEN Outcome("IndexError", <<>>)
                    ELSE IF ~GenomeInit(c.meta, c.main).ok
                    THEN Outcome("ValueError", <<c.meta, c.main>>)
                    ELSE Outcome("none", <<c.meta, c.main>>)
    /\ mpc' = "crossed"
    /\ last' = "cross_genomes"
    /\ UNCHANGED <<genome, mi, muts, args, genomeIdle>>

\* The caller of cross_genomes has taken the child, or seen the exception
CrossReturn ==
    /\ mpc = "crossed"
    /\ mpc' = "idle"
    /\ ret' = NoCall
    /\ last' = "cross_return"
    /\ UNCHANGED <<genome, mi, muts, args, genomeIdle>>

NextMutate ==
    \/ MutateBegin
    \/ MutSkip
    \/ MutInsert
    \/ MutDupe
    \/ MutDelete
    \/ MutInvert
    \/ MutGene
    \/ MutFinish

GenomeSpec == InitGenome /\ [][NextMutate]_vars

\* The genomes that are crossed have gone through MaxCrossMuts mutations at most
MaxCrossMuts == 1

InitCross ==
    /\ \E s \in MutateSeeds : genome = GenomeInit(s[1], s[2])
    /\ expr_order = <<>>
    /\ ori = <<1, 0>>
    /\ AgentIdle
    /\ mi = 0 /\ mpc = "idle" /\ world = NoWorld /\ args = <<>>
    /\ muts = MaxMuts - MaxCrossMuts
    /\ ret = NoCall

NextCross ==
    \/ NextMutate
    \/ CrossGenomes
    \/ CrossReturn

CrossSpec == InitCross /\ [][NextCross]_vars

-----------------------------------------------------------------------------
(* The metagenome under Genome.mutate (genome.py 406-507, 519-577), on      *)
(* fractional values.  A float is held in thousandths; MilliInf and         *)
(* -MilliInf are the infinities and MilliNaN is the not-a-number.  The      *)
(* metagenome is the record in args; the genes are left to GenomeSpec.      *)

\* 1.0
Unit == 1000

\* The largest finite float, scaled down
MilliMax == 16000

MilliInf == MilliMax + 1

MilliNaN == 2 * MilliInf

\* None as a clamp
NoClamp == MilliNaN + 1

IsNaN(x) == x = MilliNaN

IsInf(x) == x = MilliInf \/ x = -MilliInf

\* A result beyond the largest finite float is an infinity
Overflowed(v) ==
    IF v > MilliMax THEN MilliInf ELSE IF v < -MilliMax THEN -MilliInf ELSE v

Signum(x) == IF x < 0 THEN -1 ELSE 1

\* x + y: inf + -inf is nan
MilliAdd(x, y) ==
    IF IsNaN(x) \/ IsNaN(y) THEN MilliNaN
    ELSE IF IsInf(x) /\ IsInf(y) THEN (IF x = y THEN x ELSE MilliNaN)
    ELSE IF IsInf(x) THEN x
    ELSE IF IsInf(y) THEN y
    ELSE Overflowed(x + y)

\* x * y: 0 * inf is nan
MilliMul(x, y) ==
    IF IsNaN(x) \/ IsNaN(y) THEN MilliNaN
    ELSE IF IsInf(x) \/ IsInf(y)
         THEN (IF x = 0 \/ y = 0 THEN MilliNaN ELSE Signum(x) * Signum(y) * MilliInf)
    ELSE Overflowed(Signum(x) * Signum(y) * ((Abs(x) * Abs(y)) \div Unit))

\* x / y for y # 0: inf / inf is nan
MilliDiv(x, y) ==
    IF IsNaN(x) \/ IsNaN(y) THEN MilliNaN
    ELSE IF IsInf(x) /\ IsInf(y) THEN MilliNaN
    ELSE IF IsInf(x) THEN Signum(x) * Signum(y) * MilliInf
    ELSE IF IsInf(y) THEN 0
    ELSE Overflowed(Signum(x) * Signum(y) * ((Abs(x) * Unit) \div Abs(y)))

\* x > y and x <= y: every comparison with nan is False
MilliGt(x, y) == ~IsNaN(x) /\ ~IsNaN(y) /\ x > y

MilliLe(x, y) == ~IsNaN(x) /\ ~IsNaN(y) /\ x <= y

\* max(a, b) is a unless b > a; min(a, b) is a unless b < a
PyMax(a, b) == IF MilliGt(b, a) THEN b ELSE a

PyMin(a, b) == IF MilliGt(a, b) THEN b ELSE a

\* random.random(), sampled
MetaDraws == {Unit \div 2}

ConstMutes == <<"Increment", "Decrement", "Incremult", "Decremult">>

\* weighted_choice(weighted_items): the indices it can return.  With an
\* infinite weight every quotient is 0 or nan, no item is taken and the
\* assert fails: the empty set.
MetaChoices(weights) ==
    IF \E k \in DOMAIN weights : IsInf(weights[k]) THEN {}
    ELSE {k \in DOMAIN weights : weights[k] > 0}

\* What a mutated_* call returns: the value, whether it was mutated, and
\* whether weighted_choice raised
Mutated(val, n, raised) == [val |-> val, muts |-> n, raised |-> raised]

\* The value after the clamps of mutated_num
Clamped(num, clamps) ==
    LET lo == IF clamps[1] # NoClamp THEN PyMax(clamps[1], num) ELSE num
    IN  IF clamps[2] # NoClamp THEN PyMin(clamps[2], lo) ELSE lo

\* mutated_num, the mutation `mute` with the draw r
mutated_num_by(num, mute, r, m, clamps) ==
    LET by == MilliMul(r, m.incr_range)
        factor == MilliAdd(MilliMul(r, MilliAdd(m.mult_range, -Unit)), Unit)
    IN  Clamped(CASE mute = "Increment" -> MilliAdd(num, by)
                  [] mute = "Decrement" -> MilliAdd(num, -by)
                  [] mute = "Incremult" -> MilliMul(num, factor)
                  [] mute = "Decremult" -> MilliDiv(num, factor),
                clamps)

\* mutated_num(num, mute_prob, genome, clamps) on a float of the metagenome
mutated_meta_num(num, mute_prob, m, clamps) ==
    {Mutated(num, 0, FALSE)}
    \cup (IF ~MilliGt(mute_prob, 0) THEN {}
          ELSE IF MetaChoices(m.const_rel) = {} THEN {Mutated(num, 0, TRUE)}
          ELSE {Mutated(mutated_num_by(num, ConstMutes[k], r, m, clamps), 1, FALSE) :
                    k \in MetaChoices(m.const_rel), r \in MetaDraws})

\* mutated_by_factor(val, factor, mute_prob, bounds)
mutated_by_factor(val, factor, mute_prob, bounds) ==
    {Mutated(val, 0, FALSE)}
    \cup (IF ~MilliGt(mute_prob, 0) THEN {}
          ELSE LET rfactors == {MilliAdd(Unit, MilliMul(r, MilliAdd(factor, -Unit))) :
                                    r \in MetaDraws}
               IN  {Mutated(PyMax(bounds[1], PyMin(bounds[2], MilliMul(val, f))), 1, FALSE) :
                        f \in rfactors \cup {MilliDiv(Unit, rf) : rf \in rfactors}})

\* mutated_by_const(val, const, mute_prob, bounds)
mutated_by_const(val, const, mute_prob, bounds) ==
    {Mutated(val, 0, FALSE)}
    \cup (IF ~MilliGt(mute_prob, 0) THEN {}
          ELSE LET rconsts == {MilliMul(r, const) : r \in MetaDraws}
               IN  {Mutated(PyMax(bounds[1], PyMin(bounds[2], MilliAdd(val, c))), 1, FALSE) :
                        c \in rconsts \cup {-rc : rc \in rconsts}})

\* The fields of the metagenome that Genome.mutate writes
MetaGenome(colors, fuzz, bounds, depth, incr, mult, mute, rate, weight) ==
    [colors |-> [k \in 1..12 |-> colors], fuzziness |-> fuzz, const_bounds |-> bounds,
     fun_gen_depth |-> depth, incr_range |-> incr, mult_range |-> mult,
     mute |-> mute, genome |-> rate,
     genome_rel |-> [k \in 1..5 |-> weight], const_rel |-> [k \in 1..4 |-> weight],
     leaf_rel |-> [k \in 1..4 |-> weight]]

\* The metagenome of run.py with every colour at 0.8, one whose mult_range
\* is at the top of the floats and whose constants start at 0.0, and one
\* that sits on its clamps
MetaSeeds ==
    {MetaGenome(800, Unit, <<-5 * Unit, 5 * Unit>>, 3 * Unit, 5 * Unit, 2 * Unit, 100, 100, Unit),
     MetaGenome(800, Unit, <<0, 5 * Unit>>, 3 * Unit, 5 * Unit, MilliMax - Unit, 100, 100, Unit),
     MetaGenome(Unit, 1, <<0, 0>>, 5 * Unit, 1, Unit, 1, Unit, 1)}

\* The mutations drawn in a run
MaxMetaMuts == 2

metaIdle == <<genome, genomeIdle>>

InitMeta ==
    /\ genome = GenomeInit(MutateMeta, TextSensor)
    /\ expr_order = <<>>
    /\ ori = <<1, 0>>
    /\ AgentIdle
    /\ mi = 0 /\ mpc = "idle" /\ muts = 0 /\ world = NoWorld
    /\ args \in MetaSeeds
    /\ ret = NoCall

\* A statement of Genome.mutate has run: the metagenome it leaves, or the
\* AssertionError of weighted_choice
MetaStep(from, to, name, results, Written(_)) ==
    /\ mpc = from
    /\ \E res \in results :
          /\ muts + res.muts <= MaxMetaMuts
          /\ muts' = muts + res.muts
          /\ IF res.raised
             THEN /\ mpc' = "raised"
                  /\ ret' = Outcome("AssertionError", <<>>)
                  /\ args' = args
             ELSE /\ mpc' = to
                  /\ ret' = ret
                  /\ args' = Written(res.val)
    /\ last' = name
    /\ UNCHANGED <<mi, metaIdle>>

\* Genome.mutate is called
MetaBegin ==
    /\ mpc = "idle"
    /\ mpc' = "genes"
    /\ last' = "mutate"
    /\ UNCHANGED <<mi, muts, args, ret, metaIdle>>

\* mutate_colors in which the component k + 1 mutates: an iteration of the
\* gene loop that drew a mutation
MetaColors ==
    \E k \in 0..11 :
       LET results == IF MetaChoices(args.genome_rel) = {}
                      THEN {Mutated(0, 0, TRUE)}
                      ELSE mutated_by_factor(args.colors[k + 1], 1700, 700, <<0, Unit>>)
                           \ {Mutated(args.colors[k + 1], 0, FALSE)}
           Written(v) == [args EXCEPT !.colors[k + 1] = v]
       IN  /\ MilliGt(args.genome, 0)
           /\ MetaStep("genes", "genes", "mutate_colors", results, Written)

\* The gene loop ends and the genome is linked
MetaLink ==
    /\ mpc = "genes"
    /\ mpc' = "fuzziness"
    /\ last' = "link"
    /\ UNCHANGED <<mi, muts, args, ret, metaIdle>>

MetaFuzziness ==
    LET Written(v) == [args EXCEPT !.fuzziness = v]
    IN  MetaStep("fuzziness", "const_bounds", "fuzziness",
                 mutated_meta_num(args.fuzziness, args.genome, args, <<1, NoClamp>>), Written)

\* Both bounds, then the reversal of an inverted pair
MetaConstBounds ==
    LET free == <<NoClamp, NoClamp>>
        ordered(b) == IF MilliGt(b[1], b[2]) THEN <<b[2], b[1]>> ELSE b
        results ==
            {Mutated(ordered(<<lo.val, hi.val>>), lo.muts + hi.muts, lo.raised \/ hi.raised) :
                lo \in mutated_meta_num(args.const_bounds[1], args.genome, args, free),
                hi \in mutated_meta_num(args.const_bounds[2], args.genome, args, free)}
        Written(v) == [args EXCEPT !.const_bounds = v]
    IN  MetaStep("const_bounds", "fun_gen_depth", "const_bounds", results, Written)

MetaFunGenDepth ==
    LET Written(v) == [args EXCEPT !.fun_gen_depth = v]
    IN  MetaStep("fun_gen_depth", "incr_range", "fun_gen_depth",
                 mutated_by_factor(args.fun_gen_depth, 1700, args.genome, <<1, 5 * Unit>>),
                 Written)

MetaIncrRange ==
    LET Written(v) == [args EXCEPT !.incr_range = v]
    IN  MetaStep("incr_range", "mult_range", "incr_range",
                 mutated_meta_num(args.incr_range, args.genome, args, <<1, NoClamp>>), Written)

MetaMultRange ==
    LET Written(v) == [args EXCEPT !.mult_range = v]
    IN  MetaStep("mult_range", "mute", "mult_range",
                 mutated_meta_num(args.mult_range, args.genome, args, <<Unit, NoClamp>>), Written)

\* mute_rates["mute"] is drawn under the genome rate
MetaMuteRate ==
    LET Written(v) == [args EXCEPT !.mute = v]
    IN  MetaStep("mute", "genome", "mute",
                 mutated_by_const(args.mute, 40, args.genome, <<1, Unit>>), Written)

\* mute_rates["genome"] is drawn under the mute rate just written
MetaGenomeRate ==
    LET Written(v) == [args EXCEPT !.genome = v]
    IN  MetaStep("genome", "rel_lists", "genome",
                 mutated_by_const(args.genome, 40, args.mute, <<1, Unit>>), Written)

\* The entry at position i of genome_rel, const_rel and leaf_rel in a row
RelList(i) == IF i < 5 THEN "genome_rel" ELSE IF i < 9 THEN "const_rel" ELSE "leaf_rel"

RelKey(i) == IF i < 5 THEN i + 1 ELSE IF i < 9 THEN i - 4 ELSE i - 8

\* An iteration of the loops over rel_lists
MetaRelEntry ==
    LET Written(v) == [args EXCEPT ![RelList(mi)][RelKey(mi)] = v]
    IN  /\ mi < 13
        /\ mpc = "rel_lists"
        /\ \E res \in mutated_meta_num(args[RelList(mi)][RelKey(mi)], args.mute, args,
                                       <<1, NoClamp>>) :
              /\ muts + res.muts <= MaxMetaMuts
              /\ muts' = muts + res.muts
              /\ IF res.raised
                 THEN /\ mpc' = "raised"
                      /\ ret' = Outcome("AssertionError", <<>>)
                      /\ args' = args
                      /\ mi' = mi
                 ELSE /\ mpc' = mpc
                      /\ ret' = ret
                      /\ args' = Written(res.val)
                      /\ mi' = mi + 1
        /\ last' = "rel_lists"
        /\ UNCHANGED metaIdle

\* Genome.mutate returns
MetaReturn ==
    /\ mpc = "rel_lists"
    /\ mi = 13
    /\ mpc' = "idle"
    /\ mi' = 0
    /\ last' = "mutate_end"
    /\ UNCHANGED <<muts, args, ret, metaIdle>>

NextMeta ==
    \/ MetaBegin
    \/ MetaColors
    \/ MetaLink
    \/ MetaFuzziness
    \/ MetaConstBounds
    \/ MetaFunGenDepth
    \/ MetaIncrRange
    \/ MetaMultRange
    \/ MetaMuteRate
    \/ MetaGenomeRate
    \/ MetaRelEntry
    \/ MetaReturn

MetaSpec == InitMeta /\ [][NextMeta]_vars

-----------------------------------------------------------------------------
(* Claims about the crossover                                               *)

\* The texts of the trees that are n with one subtree below the root
\* replaced by a tree whose text is in subs
RECURSIVE GraftTexts(_, _)
GraftTexts(n, subs) ==
    IF is_leaf(n) THEN {}
    ELSE LET op == <<<<OP_STRINGS[n.operator + 1]>>>>
         IN  {op \o s \o TreeStr(n.right) : s \in subs}
             \cup {op \o TreeStr(n.left) \o s : s \in subs}
             \cup {op \o g \o TreeStr(n.right) : g \in GraftTexts(n.left, subs)}
             \cup {op \o TreeStr(n.left) \o g : g \in GraftTexts(n.right, subs)}

\* The coding text child is main_a and main_b crossed at the gene c
CrossedAt(child, main_a, main_b, c) ==
    LET genes_a == SplitBar(main_a)
        genes_b == SplitBar(main_b)
        genes == SplitBar(child)
        func_a == parse_func(Tail(genes_a[c + 1]), 0, 1).node
        func_b == parse_func(Tail(genes_b[c + 1]), 0, 1).node
    IN  /\ Len(genes) = Len(genes_b)
        /\ \A k \in 1..c : genes[k] = genes_a[k]
        /\ \A k \in (c + 2)..Len(genes_b) : genes[k] = genes_b[k]
        /\ genes[c + 1][1] \in {genes_a[c + 1][1], genes_b[c + 1][1]}
        /\ Tail(genes[c + 1]) \in
              GraftTexts(func_a, {TreeStr(as_list(func_b)[b]) : b \in 1..Len(as_list(func_b))})
              \cup {TreeStr(func_b)}

\* The child is a cross of the texts a and b, in this order
CrossOf(child, a, b) ==
    \E c \in 0..(Min(Len(SplitBar(a)), Len(SplitBar(b))) - 1) : CrossedAt(child, a, b, c)

\* C35: the child of parents with at least one gene each has as many genes
\* as the second parent: the first parent's genes before a cut c, the second
\* parent's genes after c, and at c a gene with the action of either parent's
\* gene c and the first parent's tree with one subtree replaced by a subtree
\* of the second parent's tree, or the second parent's whole tree
CrossSplicesParents ==
    (mpc = "crossed" /\ Len(genome.genes) >= 1) =>
        /\ ret.raised # "IndexError"
        /\ \E partner \in PartnerTexts :
              \/ CrossOf(ret.child[2], sequences(genome)[2], partner[2])
              \/ CrossOf(ret.child[2], partner[2], sequences(genome)[2])

\* A child of a mutated parent of three genes, crossed with the partner of
\* two genes at the second gene, with a subtree grafted
CrossedAtSecondGene ==
    /\ mpc = "crossed"
    /\ ret.raised = "none"
    /\ Len(genome.genes) = 3
    /\ \E partner \in PartnerTexts :
          /\ CrossedAt(ret.child[2], sequences(genome)[2], partner[2], 1)
          /\ Len(SplitBar(ret.child[2])) = 2
          /\ Tail(SplitBar(ret.child[2])[2]) # Tail(SplitBar(partner[2])[2])
          /\ SplitBar(ret.child[2])[1] = SplitBar(sequences(genome)[2])[1]

-----------------------------------------------------------------------------
(* Claims about the metagenome                                              *)

\* const_bounds[0] <= const_bounds[1]
BoundsOrdered(m) == MilliLe(m.const_bounds[1], m.const_bounds[2])

\* The domains of the clamped fields
InDomains(m) ==
    /\ MilliLe(1, m.fuzziness)
    /\ \A k \in DOMAIN m.colors : MilliLe(0, m.colors[k]) /\ MilliLe(m.colors[k], Unit)
    /\ MilliLe(Unit, m.mult_range)
    /\ MilliLe(m.fun_gen_depth, 5 * Unit)
    /\ MilliLe(1, m.mute) /\ MilliLe(m.mute, Unit)
    /\ MilliLe(1, m.genome) /\ MilliLe(m.genome, Unit)
    /\ \A l \in {"genome_rel", "const_rel", "leaf_rel"} :
          \A k \in DOMAIN m[l] : MilliLe(1, m[l][k])

\* C34: after any sequence of Genome.mutate calls on a metagenome that is
\* within its bounds, const_bounds[0] <= const_bounds[1], fuzziness >= 0.001,
\* every colour component is in [0, 1], mult_range >= 1, fun_gen_depth <= 5,
\* the mute and genome rates are in [0.001, 1] and every entry of the mutated
\* relative-weight lists is >= 0.001
MetagenomeStaysInBounds ==
    mpc = "idle" => BoundsOrdered(args) /\ InDomains(args)

\* The clamped fields do stay in their domains, a nan included
ClampedFieldsStayInDomains == mpc \in {"idle", "raised"} => InDomains(args)

\* Genome.mutate has returned a metagenome whose lower bound is not a number
LowerBoundNotANumber ==
    /\ mpc = "idle"
    /\ last = "mutate_end"
    /\ IsNaN(args.const_bounds[1])
    /\ ~IsNaN(args.const_bounds[2])

-----------------------------------------------------------------------------
(* Genome.__init__ on well-formed and malformed texts                       *)

\* Metagenome texts of 42 fields, of fewer and of more, and one with a token
\* that is no number
ConstructMetas ==
    {ThinkMeta, PySlice(ThinkMeta, 0, 41), ThinkMeta \o <<<<"0", ".", "5">>>>,
     PySlice(ThinkMeta, 0, 2), <<>>, [ThinkMeta EXCEPT ![13] = <<"x">>]}

\* Coding texts with a gene that has no tokens, or no function, or half a
\* function:  "",  "1",  "1 $0 |",  "1 $0 | | 1 $0",  "1 + 1"
TruncatedCodings ==
    {<<>>, <<<<"1">>>>, <<<<"1">>, <<"$", "0">>, <<"|">>>>,
     <<<<"1">>, <<"$", "0">>, <<"|">>, <<"|">>, <<"1">>, <<"$", "0">>>>,
     <<<<"1">>, <<"+">>, <<"1">>>>}

\* Coding texts with a token that cannot be read:  "1 x",  "x $0",  "1 $",
\* "1 [1.5",  "13 $0",  "1 $0 | 5 * $x 2"
UnparseableCodings ==
    {<<<<"1">>, <<"x">>>>, <<<<"x">>, <<"$", "0">>>>, <<<<"1">>, <<"$">>>>,
     <<<<"1">>, <<"[", "1", ".", "5">>>>, <<<<"1", "3">>, <<"$", "0">>>>,
     <<<<"1">>, <<"$", "0">>, <<"|">>, <<"5">>, <<"*">>, <<"$", "x">>, <<"2">>>>}

ConstructCodings == ThinkTexts \cup {TextSensor, TextConstCall, TextFuzzy}
                    \cup TruncatedCodings \cup UnparseableCodings

\* No Genome object
NoGenome == [ok |-> TRUE, meta |-> <<>>, genes |-> <<>>, next |-> 1]

InitConstruct ==
    /\ \E m \in ConstructMetas, c \in ConstructCodings : args = <<m, c>>
    /\ genome = NoGenome
    /\ expr_order = <<>>
    /\ ori = <<1, 0>>
    /\ AgentIdle
    /\ mi = 0 /\ mpc = "idle" /\ muts = 0 /\ world = NoWorld
    /\ ret = NoCall

\* Genome(meta, sequence): the object, or the exception and no object
Construct ==
    /\ last = "init"
    /\ LET g == GenomeInit(args[1], args[2])
       IN  IF g.ok
           THEN genome' = g /\ ret' = Outcome("none", <<>>)
           ELSE genome' = genome /\ ret' = Outcome("error", <<>>)
    /\ last' = "construct"
    /\ UNCHANGED <<args, mi, mpc, muts, genomeIdle>>

ConstructSpec == InitConstruct /\ [][Construct]_vars

-----------------------------------------------------------------------------
(* World.step and World.next_gen (world.py) over a population of agents     *)
(* (goomba.py).  The agent being processed lives in the agent's variables,  *)
(* the others rest in world.goombas.  Every value the random module hands   *)
(* out is written to a tape, and each step is taken a second time on a      *)
(* copy of the world it started from, with the draws read back from the     *)
(* tape.                                                                    *)

\* World.__init__'s gen_time in the model: next_gen runs in the second step
GenTime == 1

\* Number of World.step calls the model follows
MaxSteps == 2

\* The gen_time of the world whose one generation is followed to its end
LongGenTime == 3

\* The gen_time of the world that turns over at every step
ShortGenTime == 0

\* dimensions
Dimensions == <<4, 4>>

\* The orientations choice() returns in the model
Oris == <<<<0, 1>>, <<-1, 0>>>>

\* 1 - 1 $2 | 5 $2: forward off a clean tile, suck on a dirty one
TextSweeper ==
    <<<<"1">>, <<"-">>, <<"1">>, <<"$", "2">>, <<"|">>, <<"5">>, <<"$", "2">>>>

\* 6 {1 | 0 [0: waits, calling its way down to the bottom of the stack
TextIdler ==
    <<<<"6">>, <<"{", "1">>, <<"|">>, <<"0">>, <<"[", "0">>>>

\* 12 + $10 1 | 1 = $10 1 | 2 = $10 3 | 5 - 1 % $10 2: counts its ticks in
\* its state; forward in the first, backward in the third, suck in the even
TextSpreader ==
    <<<<"1", "2">>, <<"+">>, <<"$", "1", "0">>, <<"1">>, <<"|">>,
      <<"1">>, <<"=">>, <<"$", "1", "0">>, <<"1">>, <<"|">>,
      <<"2">>, <<"=">>, <<"$", "1", "0">>, <<"3">>, <<"|">>,
      <<"5">>, <<"-">>, <<"1">>, <<"%">>, <<"$", "1", "0">>, <<"2">>>>

\* 2 - 1 $0: backward, unless it feels the bump of its last move
TextBacker ==
    <<<<"2">>, <<"-">>, <<"1">>, <<"$", "0">>>>

\* The coding regions of the seed population, and of random_coding
StepTexts == <<TextSweeper, TextIdler>>

\* The worlds the model steps: what World.__init__ is given and what it
\* draws.  Two agents, or one, with a short generation; two agents with a
\* generation long enough to clean a tile and to soil another; two agents
\* with a generation of one step, which the model follows through two
\* turnovers
StepWorlds ==
    {[texts |-> StepTexts, starts |-> <<<<1, 1>>, <<2, 2>>>>, oris |-> <<Oris[1], Oris[2]>>,
      gen_time |-> GenTime],
     [texts |-> StepTexts, starts |-> <<<<1, 1>>, <<2, 2>>>>, oris |-> <<Oris[2], Oris[1]>>,
      gen_time |-> GenTime],
     [texts |-> StepTexts, starts |-> <<<<2, 1>>, <<1, 1>>>>, oris |-> <<Oris[1], Oris[2]>>,
      gen_time |-> GenTime],
     [texts |-> <<TextBacker, TextSweeper>>, starts |-> <<<<2, 1>>, <<1, 1>>>>,
      oris |-> <<Oris[2], Oris[1]>>, gen_time |-> GenTime],
     [texts |-> <<TextSweeper>>, starts |-> <<<<1, 1>>>>, oris |-> <<Oris[1]>>,
      gen_time |-> GenTime],
     [texts |-> <<TextSpreader, TextIdler>>, starts |-> <<<<1, 1>>, <<2, 2>>>>,
      oris |-> <<Oris[1], Oris[2]>>, gen_time |-> LongGenTime],
     [texts |-> StepTexts, starts |-> <<<<1, 1>>, <<2, 2>>>>, oris |-> <<Oris[2], Oris[1]>>,
      gen_time |-> ShortGenTime]}

\* World.is_in_bounds
is_in_bounds(w, x, y) ==
    x >= 0 /\ x < w.dimensions[1] /\ y >= 0 /\ y < w.dimensions[2]

\* World.get_tile
get_tile(w, x, y) == IF is_in_bounds(w, x, y) THEN w.state[x][y] ELSE Boundary

\* Mutant: the tile is left as it is
set_tileLost(w, x, y, v) == w

\* World.set_tile
set_tile(w, x, y, v) ==
    IF is_in_bounds(w, x, y) THEN [w EXCEPT !.state[x][y] = v] ELSE w

\* The loops over y, then x, of World.__init__ and start_locations: the
\* coordinates holding tile v, in the order the loops meet them
RECURSIVE TilesFrom(_, _, _)
TilesFrom(w, v, k) ==
    IF k >= w.dimensions[1] * w.dimensions[2] THEN <<>>
    ELSE LET x == k % w.dimensions[1]
             y == k \div w.dimensions[1]
         IN  (IF w.state[x][y] = v THEN <<<<x, y>>>> ELSE <<>>) \o TilesFrom(w, v, k + 1)

\* random.sample(poss_starts, 2) for the two indices it draws: the first
\* pick, then a pick among the rest
sample(poss, i, j) ==
    LET rest == [k \in 1..(Len(poss) - 1) |-> IF k < i THEN poss[k] ELSE poss[k + 1]]
    IN  <<poss[i], rest[j]>>

\* World.reset_dirt
RECURSIVE reset_dirt(_, _)
reset_dirt(w, k) ==
    IF k > Len(w.init_dirt_distrib) THEN w
    ELSE LET c == w.init_dirt_distrib[k]
         IN  reset_dirt([w EXCEPT !.state[c[1]][c[2]] = Dirty], k + 1)

\* Genome.size: the number of function nodes
RECURSIVE GenomeSizeOf(_, _)
GenomeSizeOf(genes, n) ==
    IF n = 0 THEN 0 ELSE GenomeSizeOf(genes, n - 1) + size(genes[n].function)

\* Goomba.__init__(gen, pos) for the orientation choice() returns
NewAgent(id, gen, p, o) ==
    [id |-> id, genome |-> gen, pos |-> p, ori |-> o,
     sensors |-> [s \in {Tile, Bump, Rand, Left, Front, Right} |-> 0],
     state |-> 0,
     intent_weights |-> [e \in {EFFECTS[i] : i \in 1..Len(EFFECTS)} |-> 0],
     intent |-> Wait,
     gene_queue |-> <<>>, memory |-> <<>>,
     expr_order |-> [i \in 1..Len(gen.genes) |-> i - 1],
     tiles_covered |-> {},
     counts |-> [c \in 1..NumCounts |->
                    IF c = GenomeSize + 1 THEN GenomeSizeOf(gen.genes, Len(gen.genes)) ELSE 0]]

\* Mutant: sense() looks at the grid as it was when the step began
senseStale(w, g, rand) ==
    LET x == g.pos[1]
        y == g.pos[2]
        was == ret.before
    IN  [g.sensors EXCEPT ![Tile] = get_tile(was, x, y),
                          ![Rand] = rand,
                          ![Front] = get_tile(was, x + g.ori[1], y + g.ori[2]),
                          ![Left] = get_tile(was, x - g.ori[2], y + g.ori[1]),
                          ![Right] = get_tile(was, x + g.ori[2], y - g.ori[1])]

\* Goomba.sense for the bit randint(0, 1) returns: the agent's sensors
sense(w, g, rand) ==
    LET x == g.pos[1]
        y == g.pos[2]
    IN  [g.sensors EXCEPT ![Tile] = get_tile(w, x, y),
                          ![Rand] = rand,
                          ![Front] = get_tile(w, x + g.ori[1], y + g.ori[2]),
                          ![Left] = get_tile(w, x - g.ori[2], y + g.ori[1]),
                          ![Right] = get_tile(w, x + g.ori[2], y - g.ori[1])]

\* Mutant: the move is made whatever the tile
MoveThrough(w, g, newpos, count) ==
    [g EXCEPT !.pos = newpos, !.counts[count + 1] = @ + 1]

\* Mutant: the bump is counted and not felt
MoveUnfelt(w, g, newpos, count) ==
    IF is_in_bounds(w, newpos[1], newpos[2]) /\ get_tile(w, newpos[1], newpos[2]) # Boundary
    THEN [g EXCEPT !.pos = newpos, !.counts[count + 1] = @ + 1]
    ELSE [g EXCEPT !.counts[Bumps + 1] = @ + 1]

\* The body shared by move_forward and move_backward: the move to newpos,
\* or the bump
Move(w, g, newpos, count) ==
    IF is_in_bounds(w, newpos[1], newpos[2]) /\ get_tile(w, newpos[1], newpos[2]) # Boundary
    THEN [g EXCEPT !.pos = newpos, !.counts[count + 1] = @ + 1]
    ELSE [g EXCEPT !.counts[Bumps + 1] = @ + 1, !.sensors[Bump] = 1]

\* Goomba.move_forward
move_forward(w, g) ==
    LET moved == Move(w, g, <<g.pos[1] + g.ori[1], g.pos[2] + g.ori[2]>>, FwdMoves)
    IN  IF moved.pos \notin moved.tiles_covered
        THEN [moved EXCEPT !.counts[TilesCovered + 1] = @ + 1,
                           !.tiles_covered = @ \cup {moved.pos}]
        ELSE moved

\* Goomba.move_backward
move_backward(w, g) ==
    Move(w, g, <<g.pos[1] - g.ori[1], g.pos[2] - g.ori[2]>>, BckwdMoves)

\* Goomba.turn_left
turn_left(g) ==
    [g EXCEPT !.ori = <<-g.ori[2], g.ori[1]>>, !.counts[LeftTurns + 1] = @ + 1]

\* Goomba.turn_right
turn_right(g) ==
    [g EXCEPT !.ori = <<g.ori[2], -g.ori[1]>>, !.counts[RightTurns + 1] = @ + 1]

\* suck() reaches its call of random()
SuckDraws(w, g) ==
    /\ g.intent = Suck
    /\ is_in_bounds(w, g.pos[1], g.pos[2])
    /\ get_tile(w, g.pos[1], g.pos[2]) # Boundary

\* Mutant: a failed suck soils a clean tile whatever dirt the agent holds
suckUnguarded(w, g, fail) ==
    LET x == g.pos[1]
        y == g.pos[2]
        tile_before == get_tile(w, x, y)
        sucked == [g EXCEPT !.counts[Sucks + 1] = @ + 1]
    IN  IF tile_before = Clean /\ fail = 1
        THEN [w |-> set_tile(w, x, y, Dirty), g |-> [sucked EXCEPT !.counts[Dirt + 1] = @ - 1]]
        ELSE IF tile_before = Dirty /\ fail = 0
        THEN [w |-> set_tile(w, x, y, Clean), g |-> [sucked EXCEPT !.counts[Dirt + 1] = @ + 1]]
        ELSE [w |-> w, g |-> sucked]

\* Goomba.suck, fail = 1 when random() < SUCK_FAIL_PROB: [w, g]
suck(w, g, fail) ==
    LET x == g.pos[1]
        y == g.pos[2]
        tile_before == get_tile(w, x, y)
        tile_after == IF fail = 1 THEN Dirty ELSE Clean
        sucked == [g EXCEPT !.counts[Sucks + 1] = @ + 1]
    IN  IF ~(is_in_bounds(w, x, y) /\ tile_before # Boundary) THEN [w |-> w, g |-> sucked]
        ELSE IF tile_before = Clean /\ tile_after = Dirty /\ sucked.counts[Dirt + 1] > 0
        THEN [w |-> set_tile(w, x, y, tile_after),
              g |-> [sucked EXCEPT !.counts[Dirt + 1] = @ - 1]]
        ELSE IF tile_before = Dirty /\ tile_after = Clean
        THEN [w |-> set_tile(w, x, y, tile_after),
              g |-> [sucked EXCEPT !.counts[Dirt + 1] = @ + 1]]
        ELSE [w |-> w, g |-> sucked]

\* Mutant: the Bump sensor is not cleared before the action
perform_actionSticky(w, g, fail) ==
    CASE g.intent = Forward -> [w |-> w, g |-> move_forward(w, g)]
      [] g.intent = Backward -> [w |-> w, g |-> move_backward(w, g)]
      [] g.intent = LeftTurn -> [w |-> w, g |-> turn_left(g)]
      [] g.intent = RightTurn -> [w |-> w, g |-> turn_right(g)]
      [] g.intent = Suck -> suck(w, g, fail)
      [] OTHER -> [w |-> w, g |-> g]

\* Goomba.perform_action: [w, g]
perform_action(w, g, fail) ==
    LET h == [g EXCEPT !.sensors[Bump] = 0]
    IN  CASE h.intent = Forward -> [w |-> w, g |-> move_forward(w, h)]
          [] h.intent = Backward -> [w |-> w, g |-> move_backward(w, h)]
          [] h.intent = LeftTurn -> [w |-> w, g |-> turn_left(h)]
          [] h.intent = RightTurn -> [w |-> w, g |-> turn_right(h)]
          [] h.intent = Suck -> suck(w, h, fail)
          [] OTHER -> [w |-> w, g |-> h]

\* The key sorted() compares: score(), with the literal of the motionless
\* below every sum
ScoreKey(g) ==
    LET s == score(g.counts) IN IF s.motionless THEN -(2 ^ 30) ELSE s.tenths

\* Mutant: the population is taken in list order
ListOrder(pop) == pop

\* sorted(goombas, key=lambda g: g.score(), reverse=True)
SortedGoombas(pop) ==
    LET keyed == SortedByScore([k \in 1..Len(pop) |-> [g |-> pop[k], score |-> ScoreKey(pop[k])]])
    IN  [k \in 1..Len(keyed) |-> keyed[k].g]

\* The object a reference of top_five points at: a member of the current
\* population goes on changing, a champion of an earlier one does not
Champ(w, c) ==
    IF \E k \in 1..Len(w.goombas) : w.goombas[k].id = c.id
    THEN w.goombas[CHOOSE k \in 1..Len(w.goombas) : w.goombas[k].id = c.id]
    ELSE c

\* World.breed_pop for a population of one or two.  Of two agents one is
\* cloned, no pair is bred (weighted_choice is asked for 0 items) and one
\* agent is random; of one agent weighted_choice is asked for -2 items, and
\* its assertion fails after the clone has been made.  d holds the draws in
\* the order the code makes them: the clone's orientation, the random
\* genome, its orientation, the two picks of sample
breed_pop(w, d) ==
    LET ordered_pop == SortedGoombas(w.goombas)
        pop_size == Len(w.goombas)
        num_clones == CeilFraction(pop_size, CLONE_BEST_FRACTION)
        num_bred == CeilFraction(pop_size, BREED_FRACTION)
        num_rand == CeilFraction(pop_size, NEW_RANDOM_FRACTION)
        pairs == weighted_choice(num_bred, 2 * (pop_size - (num_clones + num_rand)))
        born == pop_size * (w.generation + 1)
        dog == sequences(ordered_pop[num_clones].genome)
        starts == sample(TilesFrom(w, Clean, 0), d[4], d[5])
        new_goombas ==
            <<NewAgent(born + 1, GenomeInit(dog[1], dog[2]), starts[1], Oris[d[1]]),
              NewAgent(born + 2, GenomeInit(w.seed_meta, StepTexts[d[2]]), starts[2],
                       Oris[d[3]])>>
    IN  IF pairs = {} THEN [w EXCEPT !.raised = "AssertionError"]
        ELSE [w EXCEPT !.goombas = new_goombas]

\* The statements of next_gen that follow breed_pop, which an exception of
\* breed_pop skips
Resumed(bred) ==
    IF bred.raised # "none" THEN bred
    ELSE [reset_dirt([bred EXCEPT !.steps = 0, !.generation = @ + 1], 1)
             EXCEPT !.running = TRUE]

\* World.next_gen for the draws of its breed_pop
next_gen(w, d) ==
    LET tops == [k \in 1..Len(w.top_five) |-> Champ(w, w.top_five[k])]
        beats(g) == \E k \in 1..Len(tops) : ScoreKey(g) > ScoreKey(tops[k])
        newtops == SortedGoombas(tops \o SelectSeq(w.goombas, beats))
        stopped == [w EXCEPT !.running = FALSE,
                             !.top_five = SubSeq(newtops, 1, Min(5, Len(newtops)))]
    IN  Resumed(breed_pop(stopped, d))

\* The draws next_gen makes of the list d: all of them, or only the clone's
\* orientation when breed_pop raises
DrawsRead(turned, d) == IF turned.raised # "none" THEN SubSeq(d, 1, 1) ELSE d

\* The tile choice(distrib) returns for row r, column c of the comprehension
\* of World.__init__: the same tile everywhere, or Dirty and Clean in turns
Fill(kind, r, c) ==
    IF kind \in {Boundary, Clean, Dirty} THEN kind
    ELSE IF (r + c) % 2 = 0 THEN Dirty ELSE Clean

\* state[i][j] of a list of lists exists
Indexable(grid, i, j) == i \in DOMAIN grid /\ j \in DOMAIN grid[i]

\* The assignments state[i][j] = Boundary of the two loops of
\* World.__init__, in the order the loops make them
RingCoords(width, height) ==
    [k \in 1..(2 * width) |->
        IF k % 2 = 1 THEN <<(k - 1) \div 2, 0>> ELSE <<(k - 1) \div 2, height - 1>>]
    \o [k \in 1..(2 * height) |->
        IF k % 2 = 1 THEN <<0, (k - 1) \div 2>> ELSE <<width - 1, (k - 1) \div 2>>]

\* The assignments from the k-th on: the grid, or the IndexError of the
\* first one whose index is out of range
RECURSIVE SetRing(_, _, _)
SetRing(grid, coords, k) ==
    IF k > Len(coords) THEN [raised |-> "none", state |-> grid]
    ELSE IF ~Indexable(grid, coords[k][1], coords[k][2])
    THEN [raised |-> "IndexError", state |-> <<>>]
    ELSE SetRing([grid EXCEPT ![coords[k][1]][coords[k][2]] = Boundary], coords, k + 1)

\* World.__init__ from the list comprehension to the second loop: height
\* lists of width tiles, then the ring
GridInit(width, height, kind) ==
    SetRing([r \in 0..(height - 1) |-> [c \in 0..(width - 1) |-> Fill(kind, r, c)]],
            RingCoords(width, height), 1)

\* World.__init__ where choice(distrib) returns Dirty for the interior tiles
\* in dirt and Clean for the others, for the start locations and the
\* orientations drawn
NewWorld(dirt, texts, starts, oris, gen_time) ==
    LET ringed == GridInit(Dimensions[1], Dimensions[2], Clean).state
        grid == [x \in DOMAIN ringed |-> [y \in DOMAIN ringed[x] |->
                    IF <<x, y>> \in dirt THEN Dirty ELSE ringed[x][y]]]
        bare == [dimensions |-> Dimensions, seed_meta |-> ThinkMeta, gen_time |-> gen_time,
                 steps |-> 0, generation |-> 0, state |-> grid,
                 init_dirt_distrib |-> <<>>, goombas |-> <<>>, top_five |-> <<>>,
                 running |-> TRUE, raised |-> "none"]
        goombas == [k \in 1..Len(texts) |->
                       NewAgent(k, GenomeInit(ThinkMeta, texts[k]), starts[k], oris[k])]
    IN  [bare EXCEPT !.init_dirt_distrib = TilesFrom(bare, Dirty, 0),
                     !.goombas = goombas,
                     !.top_five = SubSeq(goombas, 1, Min(5, Len(goombas)))]

\* The draws of breed_pop the model follows
BreedDraws == {<<1, 1, 1, 1, 1>>, <<2, 2, 2, 2, 1>>}

\* The tape before the first draw
NoTape == [replay |-> FALSE, draws |-> <<>>, at |-> 0]

\* Mutant: the copy is handed draws of its own
Undictated(tape, d) == TRUE

\* The random module hands out d next: any value when the tape is being
\* written, the values written when it is read back
Dictated(tape, d) ==
    tape.replay =>
        /\ tape.at + Len(d) <= Len(tape.draws)
        /\ \A k \in 1..Len(d) : tape.draws[tape.at + k] = d[k]

\* The tape once d has been handed out
Drawn(tape, d) ==
    [tape EXCEPT !.at = @ + Len(d),
                 !.draws = IF tape.replay THEN @ ELSE @ \o d]

InitStep ==
    /\ \E w \in StepWorlds :
          /\ world = NewWorld({<<1, 2>>}, w.texts, w.starts, w.oris, w.gen_time)
          /\ ret = [before |-> world, after |-> world]
    /\ genome = [ok |-> TRUE, meta |-> <<>>, genes |-> <<>>, next |-> 1]
    /\ expr_order = <<>>
    /\ ori = <<1, 0>>
    /\ AgentIdle
    /\ mi = 0 /\ mpc = "idle" /\ muts = 0
    /\ args = NoTape

\* The number of steps world w has taken
StepsTaken(w) == w.generation * (w.gen_time + 1) + w.steps

\* World.step begins: on the world, or on the copy of the world as it was
\* before the step, the tape rewound
StepBegin ==
    /\ \/ /\ mpc = "idle"
          /\ world.running
          /\ StepsTaken(world) < Max(MaxSteps, world.gen_time + 1)
          /\ world' = [world EXCEPT !.steps = @ + 1]
          /\ ret' = ret
          /\ args' = args
       \/ /\ mpc = "copy"
          /\ ret.before.running
          /\ world' = [ret.before EXCEPT !.steps = @ + 1]
          /\ ret' = ret
          /\ args' = [args EXCEPT !.replay = TRUE, !.at = 0]
    /\ mi' = 1
    /\ mpc' = "sense"
    /\ last' = "step_begin"
    /\ UNCHANGED <<genome, gene_queue, exec_depth, memory, state, intent_weights,
                   expr_order, sensors, pos, ori, thoughts, qi, kont, vals, pc, ticks, muts>>

\* goomba.sense(self) of the loop of World.step, for goombas[mi]
GoombaSense ==
    /\ mpc = "sense"
    /\ LET g == world.goombas[mi]
       IN  /\ \E rand \in 0..1 :
                 /\ Dictated(args, <<rand>>)
                 /\ args' = Drawn(args, <<rand>>)
                 /\ sensors' = sense(world, g, rand)
           /\ genome' = g.genome
           /\ gene_queue' = g.gene_queue
           /\ memory' = g.memory
           /\ state' = g.state
           /\ intent_weights' = g.intent_weights
           /\ expr_order' = g.expr_order
           /\ pos' = g.pos
           /\ ori' = g.ori
           /\ thoughts' = g.counts[Thoughts + 1]
    /\ qi' = 0 /\ kont' = <<>> /\ vals' = <<>> /\ ticks' = 0
    /\ pc' = "sensed"
    /\ mpc' = "think"
    /\ last' = "sense"
    /\ UNCHANGED <<exec_depth, mi, muts, world, ret>>

\* goomba.choose_action() and goomba.perform_action(self) of the loop of
\* World.step, once think has returned; the loop moves on
GoombaAct ==
    /\ mpc = "think" /\ pc = "idle"
    /\ LET g == [world.goombas[mi] EXCEPT
                    !.gene_queue = gene_queue, !.memory = memory, !.state = state,
                    !.intent_weights = intent_weights, !.expr_order = expr_order,
                    !.sensors = sensors, !.counts[Thoughts + 1] = thoughts,
                    !.intent = choose_action(intent_weights)]
       IN  \E fail \in 0..1 :
              /\ IF SuckDraws(world, g)
                 THEN Dictated(args, <<fail>>) /\ args' = Drawn(args, <<fail>>)
                 ELSE fail = 0 /\ args' = args
              /\ LET done == perform_action(world, g, fail)
                 IN  world' = [done.w EXCEPT !.goombas[mi] = done.g]
    /\ IF mi < Len(world.goombas)
       THEN mi' = mi + 1 /\ mpc' = "sense"
       ELSE mi' = mi /\ mpc' = "end"
    /\ last' = "perform_action"
    /\ UNCHANGED <<genome, gene_queue, exec_depth, memory, state, intent_weights,
                   expr_order, sensors, pos, ori, thoughts, qi, kont, vals, pc, ticks,
                   muts, ret>>

\* if self.steps > self.gen_time: self.next_gen().  An exception of
\* breed_pop leaves next_gen and step where it was raised
NextGen ==
    /\ mpc = "end"
    /\ world.steps > world.gen_time
    /\ \E d \in BreedDraws :
          \E turned \in {next_gen(world, d)} :
             \E read \in {DrawsRead(turned, d)} :
                /\ Dictated(args, read)
                /\ args' = Drawn(args, read)
                /\ world' = turned
    /\ mpc' = "return"
    /\ last' = "next_gen"
    /\ UNCHANGED <<genome, gene_queue, exec_depth, memory, state, intent_weights,
                   expr_order, sensors, pos, ori, thoughts, qi, kont, vals, pc, ticks,
                   mi, muts, ret>>

\* World.step returns.  The world it leaves is kept and the step is taken
\* again on the copy; after the second time the copy and the tape are
\* dropped and the world goes on
StepReturn ==
    /\ \/ mpc = "end" /\ ~(world.steps > world.gen_time)
       \/ mpc = "return"
    /\ IF args.replay
       THEN mpc' = "idle" /\ ret' = [before |-> world, after |-> world] /\ args' = NoTape
       ELSE mpc' = "copy" /\ ret' = [ret EXCEPT !.after = world] /\ args' = args
    /\ mi' = 0
    /\ last' = "step"
    /\ UNCHANGED <<genome, gene_queue, exec_depth, memory, state, intent_weights,
                   expr_order, sensors, pos, ori, thoughts, qi, kont, vals, pc, ticks,
                   muts, world>>

NextStep ==
    StepBegin \/ GoombaSense \/ Think \/ ThinkStep \/ GoombaAct \/ NextGen \/ StepReturn

StepSpec == InitStep /\ [][NextStep]_vars

-----------------------------------------------------------------------------
(* World.__init__ on grids of every shape                                   *)

\* The largest width and height
MaxDim == 4

\* The ways the comprehension is filled: one tile everywhere, or 2 for Dirty
\* and Clean in turns
FillKinds == {Boundary, Clean, Dirty, 2}

NoGrid == [raised |-> "none", state |-> <<>>]

InitGrid ==
    /\ \E width \in 1..MaxDim, height \in 1..MaxDim, kind \in FillKinds :
          args = <<width, height, kind>>
    /\ genome = [ok |-> TRUE, meta |-> <<>>, genes |-> <<>>, next |-> 1]
    /\ expr_order = <<>>
    /\ ori = <<1, 0>>
    /\ AgentIdle
    /\ mi = 0 /\ mpc = "idle" /\ muts = 0 /\ world = NoWorld
    /\ ret = NoGrid

\* World((width, height), ...): the grid, or the exception
WorldInit ==
    /\ last = "init"
    /\ ret' = GridInit(args[1], args[2], args[3])
    /\ last' = "World"
    /\ UNCHANGED <<args, callVars>>

GridSpec == InitGrid /\ [][WorldInit]_vars

-----------------------------------------------------------------------------
(* Claims about the agent runtime                                           *)

\* C1: every think() returns: once the agent is in think's queue loop it
\* reaches the end of the loop, whatever the genome (self-referential and
\* mutually cyclic offset chains, Call actions that enqueue further genes).
ThinkTerminates == (pc = "think") ~> (pc = "idle")

\* C1 witness: think returned for the mutually cyclic genome after its Call
\* actions had filled the queue
ThinkReturnedCyclic ==
    /\ last = "ThinkEnd"
    /\ genome = GenomeInit(ThinkMeta, TextMutual)
    /\ Len(gene_queue) = GENE_QUEUE_SIZE

SaturatedCallReturnsZero ==
    (/\ Running /\ Head(kont).t = "eval" /\ IsOffset(Head(kont).n)
     /\ exec_depth = EXEC_STACK_SIZE)
    => /\ vals' = Append(vals, 0)
       /\ kont' = Tail(kont)
       /\ UNCHANGED <<mindVars, bodyVars, exec_depth, thoughts, qi, pc>>

\* C2: 0 <= exec_depth <= EXEC_STACK_SIZE always; exec_depth is 0 before and
\* after each gene run from the queue; an offset call entered at
\* exec_depth = EXEC_STACK_SIZE returns 0, evaluates nothing, dispatches no
\* action and changes no agent state.
ExecDepthBounded ==
    /\ [](/\ exec_depth \in 0..EXEC_STACK_SIZE
          /\ (kont = <<>> \/ Head(kont).t = "next") => exec_depth = 0)
    /\ [][SaturatedCallReturnsZero]_vars

\* C2 witness: an offset call was entered at the bound and returned 0
SaturatedReturned ==
    /\ last = "CallSaturated"
    /\ exec_depth = EXEC_STACK_SIZE
    /\ vals # <<>> /\ vals[Len(vals)] = 0

Dispatching(action) ==
    Running /\ Head(kont).t = "retg" /\ GeneById(Head(kont).g).action = action

\* C11: a push onto a full bounded structure is rejected: a Remember run
\* when the memory holds MEM_SIZE values leaves the memory as it was, and a
\* Call run when the queue holds GENE_QUEUE_SIZE genes leaves the queue as it
\* was.
FullPushRejected ==
    [][/\ (Dispatching(Remember) /\ Len(memory) = MEM_SIZE) => memory' = memory
       /\ (Dispatching(Call) /\ Len(gene_queue) = GENE_QUEUE_SIZE)
             => gene_queue' = gene_queue]_vars

\* C20: at the start of think the queue is seeded with the genes at the first
\* min(NUM_INIT_FUNS, L) ranks of the expression order, genes[expr_order[0]],
\* genes[expr_order[1]], ..., so that a Promote or Demote of an earlier tick
\* changes the genes seeded and their order.
SeedsFollowExprOrder ==
    last = "Think" =>
        gene_queue = [i \in 1..Min(NUM_INIT_FUNS, Len(expr_order)) |->
                         genome.genes[expr_order[i] + 1].gid]

\* One step of think's while loop, as the queue sees it
QueueInOrder ==
    /\ qi <= Len(gene_queue) /\ Len(gene_queue) <= GENE_QUEUE_SIZE
    /\ (pc = "think" /\ pc' = "think") =>
          /\ Len(gene_queue') >= Len(gene_queue)
          /\ SubSeq(gene_queue', 1, Len(gene_queue)) = gene_queue
          /\ qi' \in {qi, qi + 1}
    /\ last' = "QueueRun" =>
          /\ qi' = qi
          /\ exec_depth = 0 /\ exec_depth' = 1
          /\ kont'[2] = Frame("retg", NoNode, gene_queue[qi + 1])
    /\ last' = "QueueNext" => qi' = qi + 1
    /\ last' = "ThinkEnd" => qi = Len(gene_queue)

\* C21: within one think phase every gene placed in the queue, seeded or
\* appended by an accepted Call (Calls made during the iteration included),
\* is executed exactly once, in the order it was enqueued: the entries
\* already in the queue never move, the loop runs entry i, moves on to
\* entry i + 1 and ends behind the last one; the number of executions of a
\* tick never exceeds GENE_QUEUE_SIZE.
QueueRunsEachOnceInOrder == [][QueueInOrder]_vars

\* C21 witness: the last entry of a full queue, appended by a Call during the
\* iteration, is being run
LastCalledGeneRuns ==
    /\ last = "QueueRun"
    /\ exec_depth = 1
    /\ Len(gene_queue) = GENE_QUEUE_SIZE
    /\ qi = GENE_QUEUE_SIZE - 1
    /\ Len(genome.genes) < GENE_QUEUE_SIZE

\* The expression order lists every gene index 0..L-1 once
OrderIsPermutation(order) ==
    /\ Len(order) = Len(genome.genes)
    /\ \A i \in 0..(Len(order) - 1) : \E k \in 1..Len(order) : order[k] = i

\* The order with the entries at ranks i and j (counted from 1) exchanged
Exchanged(order, i, j) == [order EXCEPT ![i] = order[j], ![j] = order[i]]

\* The action the step dispatches when run_gene returns, and the gene index
\* its value names
Dispatched == GeneById(Head(kont).g).action

DispatchedIndex == vals[Len(vals)] % Len(genome.genes)

\* The rank, counted from 1, of gene index i in the expression order
RankOf(i) == CHOOSE k \in 1..Len(expr_order) : expr_order[k] = i

PromoteDemoteSwap ==
    /\ OrderIsPermutation(expr_order) /\ OrderIsPermutation(expr_order')
    /\ last' = "RetGene" /\ Dispatched \in {Promote, Demote} =>
          LET k == RankOf(DispatchedIndex)
              to == IF Dispatched = Promote THEN k - 1 ELSE k + 1
          IN  /\ expr_order' = IF to \in 1..Len(expr_order)
                               THEN Exchanged(expr_order, k, to)
                               ELSE expr_order
              /\ UNCHANGED <<gene_queue, memory, state, intent_weights, genome>>
    /\ ~(last' = "RetGene" /\ Dispatched \in {Promote, Demote}) => UNCHANGED expr_order

\* C31: expr_order is at all times a permutation of 0..L-1; Promote of the
\* gene at rank k > 0 swaps it with the gene at rank k-1 and changes nothing
\* else, Promote at rank 0 is a no-op, Demote of the gene at rank k < L-1
\* swaps it with rank k+1, and Demote at rank L-1 is a no-op.
ExprOrderStaysPermutation == [][PromoteDemoteSwap]_vars

\* C31 witness: in two ticks the agent has promoted gene 1 from rank 1 and
\* then, to no effect, from rank 0, has demoted gene 2 to no effect at the
\* last rank and then from rank 1, and has twice demoted gene 0
ShuffledTwice ==
    /\ genome = GenomeInit(ThinkMeta, TextShuffle)
    /\ ticks = 2
    /\ pc = "idle"
    /\ expr_order = <<1, 2, 0>>

\* The offset leaf the step calls, and the gene link_func bound it to
CalledLeaf == Head(kont).n

Referenced == GeneOf(CalledLeaf.ref)

\* What is left to do once the expression called has its value: for a pure
\* leaf nothing but the return of run_func, for an impure leaf the return of
\* run_gene for the referenced gene
PureCallEvaluates ==
    last' = "CallFunc" =>
        /\ kont' = <<Frame("eval", Referenced.function, 0), Frame("retf", NoNode, 0)>>
                   \o Tail(kont)
        /\ UNCHANGED mindVars

ImpureCallEvaluates ==
    last' = "CallGene" =>
        /\ kont' = <<Frame("eval", Referenced.function, 0),
                     Frame("retg", NoNode, Referenced.gid)>> \o Tail(kont)
        /\ UNCHANGED mindVars

\* The return of run_func passes the value on and dispatches nothing
PureReturnDispatchesNothing ==
    last' = "RetFunc" => UNCHANGED <<mindVars, vals>> /\ kont' = Tail(kont)

\* The return of run_gene dispatches the gene's action, once, with the value
\* of its expression: seen for the actions whose effect shows the value
ImpureReturnDispatches ==
    last' = "RetGene" =>
        LET val == vals[Len(vals)]
        IN  /\ UNCHANGED vals /\ kont' = Tail(kont)
            /\ Dispatched \in DOMAIN intent_weights =>
                  /\ intent_weights' =
                        [intent_weights EXCEPT ![Dispatched] = intent_weights[Dispatched] + val]
                  /\ UNCHANGED <<gene_queue, memory, state, expr_order>>
            /\ Dispatched = SetState =>
                  /\ state' = val
                  /\ UNCHANGED <<gene_queue, memory, intent_weights, expr_order>>
            /\ Dispatched = Remember /\ Len(memory) < MEM_SIZE =>
                  /\ memory' = Append(memory, val)
                  /\ UNCHANGED <<gene_queue, state, intent_weights, expr_order>>
            /\ Dispatched = Call /\ Len(gene_queue) < GENE_QUEUE_SIZE =>
                  /\ gene_queue' =
                        Append(gene_queue, genome.genes[(val % Len(genome.genes)) + 1].gid)
                  /\ UNCHANGED <<memory, state, intent_weights, expr_order>>

\* Nothing but the return of run_gene, and the fresh_intent and seeding of
\* think, writes to the mind of the agent
OnlyGenesDispatch == last' \notin {"RetGene", "Think"} => UNCHANGED mindVars

\* C32: evaluating a pure offset leaf evaluates the referenced gene's
\* expression only and never dispatches that gene's action (no intent
\* weight, queue, memory, state or expression-order change is caused by the
\* referenced gene's action code), while evaluating an impure offset leaf
\* below the depth bound evaluates the referenced gene's expression and
\* dispatches its action exactly once with the resulting value.
PureCallsNeverDispatch ==
    [][/\ PureCallEvaluates /\ PureReturnDispatchesNothing
       /\ ImpureCallEvaluates /\ ImpureReturnDispatches
       /\ OnlyGenesDispatch]_vars

\* C32 witness: a gene called impurely from inside an expression that was
\* called purely has dispatched its Call, while the Remember of the gene
\* whose expression was called purely has not been dispatched
CalledThroughPureCall ==
    /\ genome = GenomeInit(ThinkMeta, TextMutual)
    /\ last = "RetGene"
    /\ ticks = 1
    /\ qi = 0
    /\ exec_depth = 4
    /\ Len(gene_queue) = 3
    /\ memory = <<>>

-----------------------------------------------------------------------------
(* Claims about genomes                                                     *)

\* The offset leaves of a function tree
OffsetLeaves(func) ==
    {as_list(func)[k] : k \in {j \in 1..Len(as_list(func)) : IsOffset(as_list(func)[j])}}

\* j is the residue of n modulo m
IsResidue(j, n, m) ==
    /\ 0 <= j /\ j < m
    /\ \E k \in -(Abs(n) + 1)..(Abs(n) + 1) : n = j + k * m

\* C3: for a genome of L >= 1 genes, link binds every pure or impure offset
\* leaf of gene i holding the raw value v (of any sign and magnitude) to the
\* gene at index (v + i) mod L, an index in [0, L).
LinkBindsModulo ==
    last = "link" =>
        /\ mpc = "idle"
        /\ \A i \in 1..Len(genome.genes) :
             \A leaf \in OffsetLeaves(genome.genes[i].function) :
                \E j \in 0..(Len(genome.genes) - 1) :
                   /\ IsResidue(j, leaf.val + (i - 1), Len(genome.genes))
                   /\ leaf.ref = IF leaf.ref_type = Pure_Offset_Call
                                 THEN FuncRef(genome.genes[j + 1].function)
                                 ELSE GeneRef(genome.genes[j + 1])

\* C3 witness: in a genome of three genes the leaf {-4 of gene 0 is bound to
\* gene 2 and the leaf [4 of the same gene to the function of gene 1
LinkedNegativeOffset ==
    /\ last = "link"
    /\ Len(genome.genes) = 3
    /\ ~is_leaf(genome.genes[1].function)
    /\ genome.genes[1].function.left.val = -4
    /\ genome.genes[1].function.left.ref = GeneRef(genome.genes[3])
    /\ genome.genes[1].function.right.val = 4
    /\ genome.genes[1].function.right.ref = FuncRef(genome.genes[2].function)

\* Every offset leaf of the genome is bound to a gene (or the function of a
\* gene) that is a member of the genome
OffsetLeavesBound ==
    \A i \in 1..Len(genome.genes) :
       \A leaf \in OffsetLeaves(genome.genes[i].function) :
          \E j \in 1..Len(genome.genes) :
             leaf.ref = IF leaf.ref_type = Pure_Offset_Call
                        THEN FuncRef(genome.genes[j].function)
                        ELSE GeneRef(genome.genes[j])

\* C4: after any sequence of Genome.mutate calls, with any interleaving of
\* Insert, Dupe, Delete, Invert and MuteGene, the link pass that ends the call
\* does not fail and every offset leaf is bound to a gene that is a member of
\* the genome.
MutateKeepsLinkable ==
    last = "mutate_end" => (mpc = "idle" /\ ret.raised = "none" /\ OffsetLeavesBound)

\* The genome that Genome(...) builds from the texts sequences() prints
Reparsed == GenomeInit(sequences(genome)[1], sequences(genome)[2])

\* C16: for every genome produced by Genome.mutate (a mutation of an internal
\* node's operator included), each gene evaluates to the value that the
\* corresponding gene of the genome re-parsed from its sequences() text
\* evaluates to, on the same inputs.  Stated for the genes without calls.
MutatedEvaluatesAsPrinted ==
    (last = "mutate_end" /\ mpc = "idle" /\ Len(genome.genes) > 0) =>
        /\ Reparsed.ok
        /\ Len(Reparsed.genes) = Len(genome.genes)
        /\ \A i \in 1..Len(genome.genes) :
              CallFree(genome.genes[i].function) =>
                 TreeValue(genome.genes[i].function, fuzziness(genome))
                    = TreeValue(Reparsed.genes[i].function, fuzziness(Reparsed))

\* C5: cross_genome_sequences of two well-formed genome texts, those printed
\* by sequences() of a mutated genome included, returns a meta text of 42
\* fields and a coding text that Genome(...) parses without error, for every
\* meta cut, gene cut and pair of crossed nodes.
CrossAlwaysParses ==
    last = "cross_genomes" => (ret.raised = "none" /\ Len(ret.child[1]) = 42)

\* C13: Genome construction from a metagenome text whose number of fields is
\* not exactly 42 fails with an error and yields no Genome object, and so
\* does construction from a coding text with a gene that has no tokens or
\* with a token that cannot be parsed.
MalformedTextFails ==
    (/\ last = "construct"
     /\ \/ Len(args[1]) # 42
        \/ args[2] \in TruncatedCodings \cup UnparseableCodings)
        => (ret.raised # "none" /\ genome = NoGenome)

-----------------------------------------------------------------------------
(* Claims about the structure of mutated trees                              *)

\* The tree is a proper binary tree with consistent back-references: the
\* root has no parent, either child of a node names the node as its parent,
\* and no object is in the tree twice
BackReferenced(root) ==
    LET nodes == as_list(root)
    IN  /\ root.parent = 0
        /\ \A i \in 1..Len(nodes) :
              ~is_leaf(nodes[i]) =>
                  /\ nodes[i].left.parent = nodes[i].id
                  /\ nodes[i].right.parent = nodes[i].id
        /\ \A i, j \in 1..Len(nodes) : i # j => nodes[i].id # nodes[j].id

\* C36: after any sequence of structural edits and gene duplications every
\* tree of the genome is a proper binary tree with consistent
\* back-references
TreesStayBackReferenced ==
    \A k \in 1..Len(genome.genes) : BackReferenced(genome.genes[k].function)

\* What does hold: no object is in a tree twice
NoNodeSharedInTree ==
    \A k \in 1..Len(genome.genes) :
       LET nodes == as_list(genome.genes[k].function)
       IN  \A i, j \in 1..Len(nodes) : i # j => nodes[i].id # nodes[j].id

-----------------------------------------------------------------------------
(* Claims about the gene pass of the mutation                               *)

\* An iteration of the loop over the genes, by what it drew
Iteration(names) == mpc = "mutate" /\ mpc' = "mutate" /\ last' \in names

\* len(genome) - i
GenesLeft == Len(genome.genes) - mi

\* The change of len(genome) and of i in the step
Grown(n, by) == Len(genome'.genes) = Len(genome.genes) + n /\ mi' = mi + by

\* Every iteration takes 1 from len(genome) - i, which is len(genome) when
\* the pass begins and 0 when it ends
GenePassCountsDown ==
    /\ (mpc = "mutate" /\ mpc' = "mutate") => GenesLeft' = GenesLeft - 1
    /\ Iteration({"insert", "dupe"}) => Grown(1, 2)
    /\ Iteration({"delete"}) => Grown(-1, 0)
    /\ Iteration({"invert", "mute_gene", "skip"}) => Grown(0, 1)
    /\ last' = "mutate" => mi' = 0 /\ genome' = genome
    /\ last' = "mutate_end" => GenesLeft = 0
    /\ GenesLeft >= 0

\* C39: the gene pass of Genome.mutate terminates: each iteration reduces
\* len(genome) - i by exactly 1 (Insert and Dupe grow the genome by 1 and
\* advance i by 2, Delete shrinks it by 1 and keeps i, Invert and MuteGene
\* advance i by 1), so a genome of length L goes through exactly L iterations
GenePassTerminates == [][GenePassCountsDown]_vars

\* A pass over one gene that drew a duplication and a deletion has ended
PassEndedAfterDupeAndDelete ==
    /\ mpc = "idle"
    /\ last = "mutate_end"
    /\ muts = 2
    /\ mi = 1
    /\ Len(genome.genes) = 1
    /\ genome.genes[1].gid # 1

\* C38: Genome.mutate never leaves a genome with zero genes: after any
\* sequence of Delete mutations on a genome of length >= 1 the genome still
\* has at least one gene
MutateKeepsAGene == Len(genome.genes) >= 1

\* Genome.mutate has returned a genome with no gene
MutatedToNoGene ==
    /\ mpc = "idle"
    /\ last = "mutate_end"
    /\ Len(genome.genes) = 0

-----------------------------------------------------------------------------
(* Claims about scoring and about the text form of function trees           *)

\* C7: score returns the sentinel minimum whenever FwdMoves + BckwdMoves is
\* 0, whatever the other counters hold.
MotionlessScoresMinimum ==
    (last = "score" /\ args[FwdMoves + 1] + args[BckwdMoves + 1] = 0) => ret = MIN_SCORE

\* C7 witness: an agent that collected dirt and covered tiles without a move
MotionlessScored ==
    /\ last = "score"
    /\ args[FwdMoves + 1] = 0 /\ args[BckwdMoves + 1] = 0
    /\ args[Dirt + 1] > 0 /\ args[TilesCovered + 1] > 0 /\ args[Sucks + 1] > 0
    /\ ret = MIN_SCORE

\* Two trees of the same shape, operators, leaf kinds and leaf values
RECURSIVE SameTree(_, _)
SameTree(a, b) ==
    /\ a.kind = b.kind
    /\ IF is_leaf(a) THEN a.ref_type = b.ref_type /\ a.val = b.val /\ a.fl = b.fl
       ELSE /\ a.operator = b.operator
            /\ SameTree(a.left, b.left)
            /\ SameTree(a.right, b.right)

\* C8: for a valid Polish-notation token sequence s, str(parse_func(s)) parses
\* again, with nothing left over, to a tree of the same shape, operators, leaf
\* kinds and leaf values, and the string of the second tree is the string of
\* the first.
ParseStrRoundTrip ==
    last = "parse_func" =>
        /\ ret.first.ok /\ ret.first.rest = <<>>
        /\ ret.second.ok /\ ret.second.rest = <<>>
        /\ SameTree(ret.first.node, ret.second.node)
        /\ ret.text2 = ret.text

\* C8 witness: a nested expression whose string differs from the tokens read
\* ("2" prints as "2.0") and which holds a negative offset
RoundTripChangedText ==
    /\ last = "parse_func"
    /\ Len(args) = 5
    /\ ret.text # args
    /\ ret.second.ok
    /\ ret.text2 = ret.text
    /\ \E k \in 1..5 : args[k] = <<"[", "-", "2">> /\ ret.text[k] = <<"[", "-", "2">>

-----------------------------------------------------------------------------
(* Claims about the fuzzy operators                                         *)

\* C9 as stated: fuzzy equality lies in [0, 1], is 1 exactly when l = r and
\* is 0 whenever |l - r| >= f; fuzzy less and greater lie in [0, 1].
FuzzyOneIffEqual ==
    last = "fuzzy" =>
        /\ 0 <= ret.equ /\ ret.equ <= One
        /\ (ret.equ = One) <=> (args.l = args.r)
        /\ Abs(args.l - args.r) >= args.f => ret.equ = 0
        /\ 0 <= ret.les /\ ret.les <= One
        /\ 0 <= ret.gre /\ ret.gre <= One

\* C9 amended: fuzzy equality lies in [0, 1], is 1 when l = r and only when
\* |l - r| <= f * 2^-FloatPrec (the difference is absorbed when f - |l - r|
\* is rounded), and is 0 whenever |l - r| >= f; fuzzy less and greater lie in
\* [0, 1].
FuzzyOneWhenEqual ==
    last = "fuzzy" =>
        /\ 0 <= ret.equ /\ ret.equ <= One
        /\ args.l = args.r => ret.equ = One
        /\ ret.equ = One => Abs(args.l - args.r) * (2 ^ FloatPrec) <= args.f
        /\ Abs(args.l - args.r) >= args.f => ret.equ = 0
        /\ 0 <= ret.les /\ ret.les <= One
        /\ 0 <= ret.gre /\ ret.gre <= One

\* C9 witness: two different operands whose fuzzy equality is 1
FuzzyOneUnequal ==
    /\ last = "fuzzy"
    /\ args.l # args.r
    /\ ret.equ = One

-----------------------------------------------------------------------------
(* Claims about the population                                              *)

\* C6: for every population size N >= 1, breed_pop completes and leaves a
\* population of N goombas.
BreedPopKeepsSize ==
    last = "breed_pop" => (world.raised = "none" /\ Len(world.goombas) = args)

-----------------------------------------------------------------------------
(* Claims about the choice of the action                                    *)

\* The largest of the six intent weights
MaxIntent == CHOOSE w \in (-MaxWeight)..MaxWeight :
                /\ \E e \in DOMAIN args : args[e] = w
                /\ \A e \in DOMAIN args : args[e] <= w

\* The rank of an action in the iteration order of EFFECTS
Rank(e) == IndexOf(EFFECTS, e)

\* C17: when two or more effect actions share the maximal intent weight (a
\* weight above zero), choose_action takes the one that comes first in the
\* order Forward, Backward, LeftTurn, RightTurn, Suck, Wait.
TiesFavorFirst ==
    (last = "choose_action" /\ MaxIntent > 0)
        => /\ args[ret] = MaxIntent
           /\ \A e \in DOMAIN args : args[e] = MaxIntent => Rank(ret) <= Rank(e)

\* C18: choose_action selects Wait whenever no effect action's intent weight
\* is above zero, also when another action has weight 0 and Wait's is negative.
WaitWhenNonePositive ==
    (last = "choose_action" /\ MaxIntent <= 0) => ret = Wait

\* C19: whenever at least one effect action has an intent weight above zero,
\* the action choose_action takes has the maximal weight of the six.
ChosenIsMaximal ==
    (last = "choose_action" /\ MaxIntent > 0) => args[ret] = MaxIntent

\* C19 witness: the single strongest action is neither the first nor the last
\* of the order, and a weaker positive weight comes after it
StrongestInTheMiddle ==
    /\ last = "choose_action"
    /\ args[Forward] = 1 /\ args[LeftTurn] = 2 /\ args[Suck] = 1 /\ args[Wait] = -1
    /\ ret = LeftTurn

-----------------------------------------------------------------------------
(* Claims about the evaluation of a node                                    *)

\* C14: a Div or Mod node whose right operand evaluates to 0 returns the
\* value of its left operand and does not raise; a Pow node whose left
\* operand is 0 returns 0; an exception raised by an operator is returned as
\* the value 0.
ZeroOperandsAndExceptions ==
    last = "call" =>
        /\ (args.op \in {OpDiv, OpMod} /\ args.r = 0) => ret = args.l
        /\ (args.op = OpPow /\ args.l = 0) => ret = 0
        /\ Raises(args.op, args.l, args.r) => ret = 0

\* C14 witness: -3 % 0 returned -3
ModByZeroReturnedLeft ==
    last = "call" /\ args.op = OpMod /\ args.l = -3 /\ args.r = 0 /\ ret = -3

-----------------------------------------------------------------------------
(* Claims about the step of the world                                       *)

\* The agent that has just sensed is still as the step found it but for its
\* sensors, and so is every agent after it
Untouched(k) == world.goombas[k] = ret.before.goombas[k]

\* Agent k has been through choose_action and perform_action in this step
Performed(k) ==
    LET g == world.goombas[k]
    IN  /\ g.intent = choose_action(g.intent_weights)
        /\ g.intent = Suck => g.counts[Sucks + 1] = ret.before.goombas[k].counts[Sucks + 1] + 1

\* C12: within one World.step the agents are processed in list order, each
\* one through sense, think, choose_action and perform_action before the
\* next one senses: when agent k has sensed, the agents before it have
\* acted and those after it are untouched, the grid differs from the grid
\* the step began with only where an earlier agent sucked, and the tiles
\* agent k sensed are the tiles of that modified grid.
SensesEarlierSucks ==
    (mpc = "think" /\ last = "sense") =>
        /\ \A k \in 1..(mi - 1) : Performed(k)
        /\ \A k \in mi..Len(world.goombas) : Untouched(k)
        /\ \A x \in 0..(Dimensions[1] - 1), y \in 0..(Dimensions[2] - 1) :
              world.state[x][y] # ret.before.state[x][y] =>
                  \E k \in 1..(mi - 1) : /\ world.goombas[k].intent = Suck
                                         /\ world.goombas[k].pos = <<x, y>>
        /\ sensors[Tile] = get_tile(world, pos[1], pos[2])
        /\ sensors[Front] = get_tile(world, pos[1] + ori[1], pos[2] + ori[2])
        /\ sensors[Left] = get_tile(world, pos[1] - ori[2], pos[2] + ori[1])
        /\ sensors[Right] = get_tile(world, pos[1] + ori[2], pos[2] - ori[1])

\* The second agent faces a tile the first agent has cleaned in this step
SensedFreshlyCleaned ==
    /\ mpc = "think" /\ last = "sense"
    /\ mi = 2
    /\ world.goombas[1].intent = Suck
    /\ world.goombas[1].pos = <<pos[1] + ori[1], pos[2] + ori[2]>>
    /\ sensors[Front] = Clean
    /\ get_tile(ret.before, pos[1] + ori[1], pos[2] + ori[2]) = Dirty

\* The copy has taken the whole step
CopyStepped ==
    /\ args.replay
    /\ \/ mpc = "return"
       \/ mpc = "end" /\ ~(world.steps > world.gen_time)

TurnedOver(before) ==
    IF before.steps + 1 > before.gen_time
    THEN [steps |-> 0, generation |-> before.generation + 1]
    ELSE [steps |-> before.steps + 1, generation |-> before.generation]

\* C22: generational turnover runs exactly when the step counter, after
\* being incremented, exceeds gen_time; it sets steps to 0, increases
\* generation by exactly 1 and leaves running true, so that between calls
\* of World.step 0 <= steps <= gen_time holds and every generation lasts
\* exactly gen_time + 1 ticks.
TurnoverEveryGenTime ==
    /\ mpc \in {"idle", "copy"} =>
          /\ world.steps \in 0..world.gen_time
          /\ world.running
    /\ mpc = "copy" =>
          /\ world.steps = TurnedOver(ret.before).steps
          /\ world.generation = TurnedOver(ret.before).generation

\* next_gen has just returned
TurnedOverNow == last = "next_gen" /\ world.raised = "none"

\* The coordinates of the grid
Coords == (0..(Dimensions[1] - 1)) \X (0..(Dimensions[2] - 1))

\* The dirty layout recorded at construction
Layout == {world.init_dirt_distrib[k] : k \in 1..Len(world.init_dirt_distrib)}

\* C23: after every generational turnover the set of Dirty tiles equals
\* exactly the dirty layout recorded at world construction: every recorded
\* tile is Dirty and no tile outside the layout is Dirty, whatever Suck
\* actions occurred during the episode.
DirtResetToLayout ==
    TurnedOverNow => \A c \in Coords : world.state[c[1]][c[2]] = Dirty <=> c \in Layout

\* Position p is inside the grid of the world and not on a Boundary tile
OnFloor(p) == is_in_bounds(world, p[1], p[2]) /\ get_tile(world, p[1], p[2]) # Boundary

\* C25: in every reachable world state every agent's position is inside the
\* grid and on a tile that is not Boundary: the start positions are Clean
\* tiles, no Forward or Backward move places an agent on a Boundary tile or
\* outside the grid, and the same holds for the new population after each
\* generational turnover.
AgentsStayOnFloor == \A k \in 1..Len(world.goombas) : OnFloor(world.goombas[k].pos)

\* C25 witness: an agent has bumped into the Boundary during the generation
\* that this step has just turned over
BumpedThenTurnedOver ==
    /\ last = "next_gen"
    /\ world.generation = 1
    /\ \E k \in 1..Len(ret.before.goombas) : ret.before.goombas[k].counts[Bumps + 1] > 0

\* The tile that the action just performed by agent mi aimed at: the one
\* ahead of where it stood for Forward, the one behind for Backward
Target ==
    LET b == world.goombas[mi]
        sign == IF world'.goombas[mi].intent = Forward THEN 1 ELSE -1
    IN  <<b.pos[1] + sign * b.ori[1], b.pos[2] + sign * b.ori[2]>>

\* Agent mi has just performed a Forward or Backward action
Moving == last' = "perform_action" /\ world'.goombas[mi].intent \in {Forward, Backward}

\* The target of the move was a Boundary tile or outside the grid
Blocked ==
    ~is_in_bounds(world, Target[1], Target[2]) \/ get_tile(world, Target[1], Target[2]) = Boundary

BumpLeavesAgentInPlace ==
    Moving /\ Blocked =>
        LET b == world.goombas[mi]
            a == world'.goombas[mi]
        IN  /\ a.pos = b.pos
            /\ a.ori = b.ori
            /\ a.counts[FwdMoves + 1] = b.counts[FwdMoves + 1]
            /\ a.counts[BckwdMoves + 1] = b.counts[BckwdMoves + 1]
            /\ a.counts[Bumps + 1] = b.counts[Bumps + 1] + 1
            /\ a.sensors[Bump] = 1

\* C26: a Forward or Backward action whose target tile is Boundary or
\* outside the grid leaves the agent's position and orientation unchanged,
\* leaves FwdMoves and BckwdMoves unchanged, increments Bumps by exactly 1
\* and sets the Bump sensor to 1.
BumpCountedAndFelt == [][BumpLeavesAgentInPlace]_vars

\* C26 witness: an agent has backed into the Boundary, and feels it
BackedIntoBoundary ==
    /\ last = "perform_action"
    /\ \E k \in 1..Len(world.goombas) :
          LET g == world.goombas[k]
          IN  /\ g.intent = Backward
              /\ g.counts[Bumps + 1] = 1
              /\ g.counts[BckwdMoves + 1] = 0
              /\ g.sensors[Bump] = 1
              /\ get_tile(world, g.pos[1] - g.ori[1], g.pos[2] - g.ori[2]) = Boundary

MoveCoversTile ==
    Moving /\ ~Blocked =>
        LET b == world.goombas[mi]
            a == world'.goombas[mi]
        IN  /\ a.pos = Target
            /\ a.tiles_covered = b.tiles_covered \cup {Target}
            /\ a.counts[TilesCovered + 1] =
                  b.counts[TilesCovered + 1] + (IF Target \in b.tiles_covered THEN 0 ELSE 1)

\* C27: every successful move, Forward or Backward, onto a tile the agent
\* has not occupied before in this episode adds that tile to the set of
\* unique tiles visited and increments TilesCovered by 1 (and a move onto a
\* tile already in the set changes neither), so that TilesCovered is the
\* number of distinct tiles the agent has moved onto.
EveryMoveCoversItsTile == [][MoveCoversTile]_vars

\* The part of C27 that the code keeps: a successful Forward move covers
\* its tile
ForwardMoveCoversTile ==
    [][Moving /\ world'.goombas[mi].intent = Forward => MoveCoversTile]_vars

\* An agent has moved backward onto a tile that its set does not hold
BackedOntoUncoveredTile ==
    \E k \in 1..Len(world.goombas) :
        /\ world.goombas[k].counts[BckwdMoves + 1] > 0
        /\ world.goombas[k].pos \notin world.goombas[k].tiles_covered

\* Agent mi has just performed a Suck action
Sucking == last' = "perform_action" /\ world'.goombas[mi].intent = Suck

\* The suck drew random() below SUCK_FAIL_PROB
SuckFailed == args'.at = args.at + 1 /\ args'.draws[args'.at] = 1

\* The suck drew random() at or above SUCK_FAIL_PROB
SuckSucceeded == args'.at = args.at + 1 /\ args'.draws[args'.at] = 0

\* The tile under agent mi before the action, the tile there after it, and
\* the change of the agent's counter c
TileBefore == get_tile(world, world.goombas[mi].pos[1], world.goombas[mi].pos[2])

TileAfter == get_tile(world', world.goombas[mi].pos[1], world.goombas[mi].pos[2])

Gained(c) == world'.goombas[mi].counts[c + 1] - world.goombas[mi].counts[c + 1]

\* No step changes a Boundary tile
BoundaryKept ==
    \A p \in Coords : get_tile(world, p[1], p[2]) = Boundary => get_tile(world', p[1], p[2]) = Boundary

\* A successful suck on a Dirty tile
SuckCleans ==
    Sucking /\ SuckSucceeded /\ TileBefore = Dirty => TileAfter = Clean /\ Gained(Dirt) = 1

SuckSoils ==
    Sucking /\ SuckFailed /\ TileBefore = Clean => TileAfter = Dirty /\ Gained(Dirt) = -1

SuckSoilsWithDirtHeld ==
    Sucking /\ SuckFailed /\ TileBefore = Clean =>
        IF world.goombas[mi].counts[Dirt + 1] > 0
        THEN TileAfter = Dirty /\ Gained(Dirt) = -1
        ELSE TileAfter = Clean /\ Gained(Dirt) = 0

\* C28 as stated: every Suck action increments the Sucks counter by exactly
\* 1; a failed Suck on a Clean tile makes the tile Dirty and decrements the
\* agent's net-dirt counter by 1, a successful Suck on a Dirty tile makes it
\* Clean and increments the counter by 1, and no Suck (or any other action)
\* ever changes a Boundary tile.
FailedSuckAlwaysSoils ==
    [][(Sucking => Gained(Sucks) = 1) /\ SuckSoils /\ SuckCleans /\ BoundaryKept]_vars

\* C28, amended: every Suck action increments the Sucks counter by exactly
\* 1; a failed Suck on a Clean tile makes the tile Dirty and decrements the
\* agent's net-dirt counter by 1 when that counter is above 0, and changes
\* neither the tile nor the counter otherwise; a successful Suck on a Dirty
\* tile makes it Clean and increments the counter by 1; no action ever
\* changes a Boundary tile.
FailedSuckSoilsWithDirtHeld ==
    [][(Sucking => Gained(Sucks) = 1) /\ SuckSoilsWithDirtHeld /\ SuckCleans /\ BoundaryKept]_vars

\* C28 witness: an agent has cleaned a tile, moved to a clean one and soiled
\* it with a failed suck, giving back the dirt it held
SoiledWithDirtHeld ==
    /\ last = "perform_action"
    /\ \E k \in 1..Len(world.goombas) :
          LET g == world.goombas[k]
          IN  /\ g.intent = Suck
              /\ g.counts[Sucks + 1] = 2
              /\ g.counts[Dirt + 1] = 0
              /\ get_tile(world, g.pos[1], g.pos[2]) = Dirty
              /\ g.pos \notin Layout

\* An agent that holds no dirt has failed a suck on a Clean tile, which is
\* still Clean
FailedSuckLeftTileClean ==
    /\ last = "perform_action"
    /\ args.at > 0 /\ args.draws[args.at] = 1
    /\ \E k \in 1..Len(world.goombas) :
          LET g == world.goombas[k]
          IN  /\ g.intent = Suck
              /\ g.counts[Dirt + 1] = 0
              /\ get_tile(world, g.pos[1], g.pos[2]) = Clean
              /\ (mi = k \/ mi = k + 1)

\* The Bump sensor of every agent is 0 or 1, and is 1 only on an agent whose
\* last action was a move and that has bumped: never on a new agent
BumpOnlyAfterMove ==
    \A k \in 1..Len(world.goombas) :
        LET g == world.goombas[k]
        IN  /\ g.sensors[Bump] \in {0, 1}
            /\ g.sensors[Bump] = 1 =>
                  g.intent \in {Forward, Backward} /\ g.counts[Bumps + 1] > 0

BumpTellsLastMove ==
    /\ BumpOnlyAfterMove
    /\ last' = "perform_action" =>
          /\ world'.goombas[mi].sensors[Bump] = (IF Moving /\ Blocked THEN 1 ELSE 0)
          /\ \A k \in 1..Len(world.goombas) :
                k # mi => world'.goombas[k].sensors[Bump] = world.goombas[k].sensors[Bump]
    /\ last' = "sense" => sensors'[Bump] = world.goombas[mi].sensors[Bump]
    /\ mpc = "think" /\ mpc' = "think" => sensors'[Bump] = world.goombas[mi].sensors[Bump]
    /\ mpc = "think" /\ last' = "EvalSensor" /\ Head(kont).n.val % NumSensors = Bump =>
          vals'[Len(vals')] = world.goombas[mi].sensors[Bump]

\* C33: the Bump sensor value read during the think phase of tick t+1 is 1
\* if and only if the action the agent performed in tick t was a Forward or
\* Backward move that failed; it is 0 in the first tick and after any turn,
\* suck, wait or successful move.
BumpReadIsLastMoveFailed == [][BumpTellsLastMove]_vars

\* C33 witness: in its second tick the agent that backed into the Boundary
\* has just read 1 from its Bump sensor
BumpReadInNextTick ==
    /\ mpc = "think"
    /\ last = "EvalSensor"
    /\ vals # <<>> /\ vals[Len(vals)] = 1
    /\ world.steps = 2
    /\ world.goombas[mi].intent = Backward
    /\ world.goombas[mi].counts[Bumps + 1] = 1
    /\ world.goombas[mi].counts[BckwdMoves + 1] = 0

-----------------------------------------------------------------------------
\* The Dirty tiles of the grid
DirtyTiles(w) == {p \in Coords : get_tile(w, p[1], p[2]) = Dirty}

\* The sum of the net-dirt counters of the agents
RECURSIVE DirtHeld(_)
DirtHeld(goombas) ==
    IF Len(goombas) = 0 THEN 0
    ELSE Head(goombas).counts[Dirt + 1] + DirtHeld(Tail(goombas))

DirtTotal(w) == Cardinality(DirtyTiles(w)) + DirtHeld(w.goombas)

\* A step that goes on in the same world: not the turnover, and not the
\* step that begins on the copy of the world
SameEpisode == last' \notin {"next_gen", "step_begin"}

\* The dirt on the tiles and in the agents is kept by every step of a
\* generation; a generation starts with all of it on the tiles, the first one
\* on the layout drawn at construction
DirtKept ==
    /\ SameEpisode => DirtTotal(world') = DirtTotal(world)
    /\ last' = "step_begin" => DirtTotal(world') = DirtTotal(ret.before)
    /\ (last' = "next_gen" /\ world'.raised = "none") => DirtHeld(world'.goombas) = 0
    /\ world.generation = 0 => DirtTotal(world) = Len(world.init_dirt_distrib)
    /\ \A k \in 1..Len(world'.goombas) : world'.goombas[k].counts[Dirt + 1] >= 0

\* C37: within one generation the number of Dirty tiles plus the sum of the
\* agents' net-dirt counters stays what it was at the start of the
\* generation, and no net-dirt counter is ever below 0
DirtIsConserved == [][DirtKept]_vars

\* An agent has given back the dirt it held onto another tile
DirtMovedToAnotherTile ==
    /\ last = "perform_action"
    /\ DirtyTiles(world) # Layout
    /\ Cardinality(DirtyTiles(world)) = Len(world.init_dirt_distrib)
    /\ DirtHeld(world.goombas) = 0

(* Claims about the turnover of the generations                            *)

\* The scores of the elite set of world w, first to last
EliteScores(w) == [k \in 1..Len(w.top_five) |-> ScoreKey(Champ(w, w.top_five[k]))]

ElitesRanked ==
    last' = "next_gen" =>
        LET scores == EliteScores(world')
            incumbent == EliteScores(world)
        IN  /\ Len(scores) <= 5
            /\ \A k \in 1..(Len(scores) - 1) : scores[k] >= scores[k + 1]
            /\ \A k \in 1..Len(world.goombas) : scores[1] >= ScoreKey(world.goombas[k])
            /\ \A k \in 1..Len(incumbent) : scores[1] >= incumbent[k]

\* C29: after every generational turnover the elite set (top_five) has at
\* most 5 entries, is ordered by non-increasing score, and its first entry
\* scores at least as high as every agent of the generation that just ended
\* and every agent of the incumbent elite set, so the best elite score never
\* decreases from one turnover to the next.
BestEliteNeverLoses == [][ElitesRanked]_vars

\* C29 witness: at the second turnover an agent of the generation that just
\* ended has beaten the champions of the generation before it, and heads an
\* elite set that holds them still
NewChampionLeads ==
    /\ last = "next_gen"
    /\ world.generation = 2
    /\ Len(world.top_five) >= 3
    /\ \E k \in 1..Len(ret.before.goombas) : world.top_five[1].id = ret.before.goombas[k].id
    /\ EliteScores(world)[1] > EliteScores(ret.before)[1]
    /\ EliteScores(world)[1] > EliteScores(world)[Len(world.top_five)]

\* The agents of population pop that score more than its j-th
Above(pop, j) == {i \in 1..Len(pop) : ScoreKey(pop[i]) > ScoreKey(pop[j])}

\* Agent c is as Goomba.__init__ leaves an agent
Fresh(c) ==
    /\ \A i \in 1..NumCounts : i # GenomeSize + 1 => c.counts[i] = 0
    /\ c.counts[GenomeSize + 1] = GenomeSizeOf(c.genome.genes, Len(c.genome.genes))
    /\ c.memory = <<>>
    /\ c.state = 0

ClonesLead ==
    last' = "next_gen" /\ world'.raised = "none" =>
        LET old == world.goombas
            new == world'.goombas
        IN  \A k \in 1..CeilFraction(Len(old), CLONE_BEST_FRACTION) :
               /\ Fresh(new[k])
               /\ \E j \in 1..Len(old) :
                     /\ Cardinality(Above(old, j)) < k
                     /\ sequences(new[k].genome) = sequences(old[j].genome)
               /\ sequences(new[k].genome) = sequences(SortedGoombas(old)[k].genome)

-----------------------------------------------------------------------------
\* C40: the elite set never contains the same agent twice: after every
\* generational turnover, the first one included, all entries of top_five
\* are distinct agents
ElitesAreDistinct ==
    \A j, k \in 1..Len(world.top_five) :
       j # k => world.top_five[j].id # world.top_five[k].id

\* The first turnover has put an agent of the first population in the elite
\* set twice
EliteListedTwice ==
    /\ last = "next_gen"
    /\ world.generation = 1
    /\ \E j, k \in 1..Len(world.top_five) :
          j # k /\ world.top_five[j].id = world.top_five[k].id

(* Claims about the construction of the world                               *)

\* C24: for every grid size width x height (width # height included) the
\* construction of the World completes, and every cell with x = 0,
\* x = width - 1, y = 0 or y = height - 1 is Boundary.
EveryGridIsRinged ==
    last = "World" =>
        /\ ret.raised = "none"
        /\ \A x \in 0..(args[1] - 1), y \in 0..(args[2] - 1) :
              (x \in {0, args[1] - 1} \/ y \in {0, args[2] - 1})
                  => ret.state[x][y] = Boundary

=============================================================================
